---- MODULE Spec2Model ----
(***************************************************************************)
(* go-gcp-middleware: the middleware chain builder (client.go), the HTTP   *)
(* middleware units (middleware.go), the HTTP log helper (logger) and the  *)
(* configuration / provider construction (client.go, telemetry/provider).  *)
(*                                                                         *)
(* A composed handler is the list of decorators that wrap a terminal       *)
(* handler, outermost first.  One request is served by goroutine 1; the    *)
(* Timeout unit runs the inner layers on goroutine 2 (http.TimeoutHandler).*)
(* A goroutine is at a depth (the layer it executes, Len+1 = the terminal  *)
(* handler) in a mode: "call" (entering), "run" (inside the terminal       *)
(* handler), "ret" (the inner call returned into this layer), "panic"      *)
(* (a panic unwinds through this layer), "select" (Timeout waits).         *)
(***************************************************************************)
EXTENDS Integers, Sequences, FiniteSets, TLC

\* ------------------------------------------------------------------ bounds
MaxChainLen == 2
MaxHandlerOps == 2
MaxCalls == 2

\* ------------------------------------------------------- program constants
StatusOK == 200
StatusNoContent == 204
StatusInternalServerError == 500
StatusServiceUnavailable == 503

VARIABLES
  chains,     \* MiddlewareChain objects: chains[c].middlewares
  composed,   \* handlers returned by Then / ThenFunc, in call order
  call,       \* the last chain operation: its arguments and what it returned
  handler,    \* the composed handler serving the request in flight
  req,        \* the request in flight
  g,          \* g[i]: depth and mode of goroutine i
  w,          \* the server's http.ResponseWriter (what the client observes)
  wrapped,    \* Logging's responseWriter
  tw,         \* http.TimeoutHandler's timeoutWriter
  tctx,       \* http.TimeoutHandler's context, done and panic channels
  span,       \* the span in the request context
  callLog,    \* call order recorded by instrumented decorators and handlers
  logs,       \* Log calls LogHTTPRequest and LogPanic make: level, message and fields
  nops,       \* writes made so far by the terminal handler
  cfg,        \* configuration handed to the last constructor call
  out,        \* result of the last constructor / Validate call
  providers,  \* telemetry providers constructed so far
  globals,    \* package-level state: environment, once, global logger, global provider, otel provider
  lg,         \* the Logger the logging methods are called on: config and handler
  sinks,      \* records written to stdout and stderr by the logger's handlers
  steps,      \* the Shutdown / Close calls made so far, each with the steps it attempted
  derived,    \* Loggers returned by With / WithLogName, in call order
  mu,         \* the Logger's sync.RWMutex
  pc,         \* positions of the goroutines calling SetLevel, a log method and With
  seen,       \* what the log method and With read from the Logger
  wt          \* a telemetry.WithTimeout call: caller, task, channel, context, span

chainVars == <<chains, composed, call>>
serveVars == <<handler, req, g, w, wrapped, tw, tctx, span, callLog, logs, nops>>
lockVars == <<mu, pc, seen>>
cfgVars == <<cfg, out, providers, globals, lg, sinks, steps, derived, mu, pc, seen, wt>>
vars == <<chains, composed, call, handler, req, g, w, wrapped, tw, tctx, span,
          callLog, logs, nops, cfg, out, providers, globals, lg, sinks, steps,
          derived, mu, pc, seen, wt>>

\* ------------------------------------------------------------- decorators
Mw(k, op, t) == [k |-> k, op |-> op, t |-> t]
OTelHTTP(operation) == Mw("OTelHTTP", operation, 0)
RequestID == Mw("RequestID", "", 0)
Logging == Mw("Logging", "", 0)
Recovery == Mw("Recovery", "", 0)
CORS == Mw("CORS", "", 0)
Timeout(timeout) == Mw("Timeout", "", timeout)
\* helpers.RecoverMiddleware(log)
RecoverMiddleware == Mw("RecoverMiddleware", "", 0)
\* a pass-through decorator that records its pre- and post-hook in callLog
Instrumented(name) == Mw("mw", name, 0)

Operations == {"op"}
Timeouts == {-1, 0, 2}
InstrumentedNames == {"A", "B"}
HandlerNames == {"h1", "h2"}

\* ------------------------------------------------------ MiddlewareChain
\* a handler value: the decorators wrapped around the terminal handler h,
\* outermost first
HandlerFunc(h) == [mws |-> <<>>, h |-> h]

\* middleware(handler): one decorator applied to a handler
Wrap(m, hd) == [hd EXCEPT !.mws = <<m>> \o @]

NewChain(middlewares) == [middlewares |-> middlewares]

RECURSIVE ThenLoop(_, _, _)
ThenLoop(middlewares, i, hd) ==
  IF i < 1 THEN hd
  ELSE ThenLoop(middlewares, i - 1, Wrap(middlewares[i], hd))

ThenForward(mc, hd) ==
  LET RECURSIVE Fwd(_, _)
      Fwd(i, acc) == IF i > Len(mc.middlewares) THEN acc
                     ELSE Fwd(i + 1, Wrap(mc.middlewares[i], acc))
  IN Fwd(1, hd)

Then(mc, hd) == ThenLoop(mc.middlewares, Len(mc.middlewares), hd)

ThenFunc(mc, handlerFunc) == Then(mc, handlerFunc)

ChainAppend(mc, middlewares) == [mc EXCEPT !.middlewares = @ \o middlewares]

StandardChainSwapped(operationName) ==
  NewChain(<<OTelHTTP(operationName), RequestID, Recovery, Logging, CORS>>)

StandardChain(operationName) ==
  NewChain(<<OTelHTTP(operationName), RequestID, Logging, Recovery, CORS>>)

APIChainAlwaysTimeout(operationName, timeout) ==
  ChainAppend(ChainAppend(NewChain(<<OTelHTTP(operationName), RequestID, Logging, Recovery>>),
                          <<Timeout(timeout)>>), <<CORS>>)

APIChain(operationName, timeout) ==
  LET chain == NewChain(<<OTelHTTP(operationName), RequestID, Logging, Recovery>>)
      chain2 == IF timeout > 0 THEN ChainAppend(chain, <<Timeout(timeout)>>) ELSE chain
  IN ChainAppend(chain2, <<CORS>>)

\* ------------------------------------------------------- response writers
HeaderNames == {"X-Request-ID", "Content-Type",
                "Access-Control-Allow-Origin", "Access-Control-Allow-Methods",
                "Access-Control-Allow-Headers", "Access-Control-Allow-Credentials",
                "Access-Control-Max-Age"}
NoHeaders == [n \in HeaderNames |-> ""]

PanicValue == "test panic"
TimeoutMessage == "Request timeout - operation took longer than expected"

Text(s) == [kind |-> "text", text |-> s, code |-> 0, panic |-> ""]
\* the errorResponse map of Recovery as json.Encoder writes it
ErrorResponse(err) ==
  [kind |-> "json", text |-> "Internal server error",
   code |-> StatusInternalServerError, panic |-> err]

\* the server's ResponseWriter: the first WriteHeader fixes the status and
\* the headers that go out; later WriteHeader calls are ignored
NewResponse ==
  [wroteHeader |-> FALSE, status |-> 0, hdr |-> NoHeaders, sent |-> NoHeaders,
   body |-> <<>>]

ResponseWriteHeader(rw, code) ==
  IF rw.wroteHeader THEN rw
  ELSE [rw EXCEPT !.wroteHeader = TRUE, !.status = code, !.sent = rw.hdr]

ResponseWrite(rw, b) ==
  LET rw1 == IF rw.wroteHeader THEN rw ELSE ResponseWriteHeader(rw, StatusOK)
  IN [rw1 EXCEPT !.body = Append(@, b)]

\* http.TimeoutHandler's timeoutWriter: buffers until the handler is done
NewTimeoutWriter ==
  [h |-> NoHeaders, wbuf |-> <<>>, wroteHeader |-> FALSE, code |-> 0, err |-> ""]

TimeoutWriteHeader(t, code) ==
  IF t.err # "" \/ t.wroteHeader THEN t
  ELSE [t EXCEPT !.wroteHeader = TRUE, !.code = code]

TimeoutWriteLate(t, b) ==
  LET t1 == IF t.wroteHeader THEN t ELSE [t EXCEPT !.wroteHeader = TRUE, !.code = StatusOK]
  IN [t1 EXCEPT !.wbuf = Append(@, b)]
TimeoutWrite(t, b) ==
  IF t.err # "" THEN t
  ELSE LET t1 == IF t.wroteHeader THEN t ELSE TimeoutWriteHeader(t, StatusOK)
       IN [t1 EXCEPT !.wbuf = Append(@, b)]

\* the three writers a call may touch
IO == [w |-> w, wrapped |-> wrapped, tw |-> tw]

\* w.WriteHeader(code) called by the layer at depth j+1: the call passes the
\* wrappers installed by the layers j, j-1, ..., 1 and ends at the server's
\* writer, unless a timeoutWriter takes it
RECURSIVE WriteHeaderVia(_, _, _, _)
WriteHeaderVia(io, mws, j, code) ==
  IF j = 0 THEN [io EXCEPT !.w = ResponseWriteHeader(@, code)]
  ELSE IF mws[j].k = "Timeout" THEN [io EXCEPT !.tw = TimeoutWriteHeader(@, code)]
  ELSE IF mws[j].k = "Logging"
       THEN WriteHeaderVia([io EXCEPT !.wrapped.statusCode = code], mws, j - 1, code)
  ELSE WriteHeaderVia(io, mws, j - 1, code)

RECURSIVE WriteVia(_, _, _, _)
WriteVia(io, mws, j, b) ==
  IF j = 0 THEN [io EXCEPT !.w = ResponseWrite(@, b)]
  ELSE IF mws[j].k = "Timeout" THEN [io EXCEPT !.tw = TimeoutWrite(@, b)]
  ELSE WriteVia(io, mws, j - 1, b)

\* w.Header().Set(name, value) called by the layer at depth j+1
RECURSIVE HeaderSetVia(_, _, _, _, _)
HeaderSetVia(io, mws, j, name, value) ==
  IF j = 0 THEN [io EXCEPT !.w.hdr[name] = value]
  ELSE IF mws[j].k = "Timeout" THEN [io EXCEPT !.tw.h[name] = value]
  ELSE HeaderSetVia(io, mws, j - 1, name, value)

SetIO(io) == /\ w' = io.w
             /\ wrapped' = io.wrapped
             /\ tw' = io.tw

\* ------------------------------------------------------------------ logger
LevelDebug == -4
LevelInfo == 0
LevelWarn == 4
LevelError == 8
LevelCritical == 12

\* Logger.LogHTTPRequest: the record handed to l.logger.Log
LogHTTPRequestNoWarn(method, path, statusCode, duration, args) ==
  [level |-> IF statusCode >= 500 THEN LevelError ELSE LevelInfo,
   msg |-> IF statusCode >= 500 THEN "HTTP request failed"
           ELSE "HTTP request completed",
   method |-> method, path |-> path, status |-> statusCode,
   duration |-> duration, args |-> args]

LogHTTPRequest(method, path, statusCode, duration, args) ==
  [level |-> IF statusCode >= 500 THEN LevelError
             ELSE IF statusCode >= 400 THEN LevelWarn ELSE LevelInfo,
   msg |-> IF statusCode >= 500 THEN "HTTP request failed"
           ELSE IF statusCode >= 400 THEN "HTTP request client error"
           ELSE "HTTP request completed",
   method |-> method, path |-> path, status |-> statusCode,
   duration |-> duration, args |-> args]

\* the builtin recover(): it returns the panic value only while the goroutine
\* is panicking and only when a deferred function calls it directly
Recover(panicking, deferred) == panicking /\ deferred

\* Logger.LogPanic: logs and re-panics only when its own recover() returns a
\* panic value, that is when LogPanic itself is the deferred call of a
\* panicking goroutine
LogPanic(recovered) ==
  IF recovered
  THEN <<[level |-> LevelCritical, msg |-> "Panic recovered", method |-> "",
          path |-> "", status |-> 0, duration |-> 0, args |-> <<"panic.value", "panic.stack_trace">>]>>
  ELSE <<>>

\* ------------------------------------------------------- serving a request
Methods == {"GET", "OPTIONS"}
InboundRequestIDs == {"", "custom-request-id"}
TraceID == "4bf92f3577b34da6a3ce929d0e0e4736"
Clock == {1}
HandlerCodes == {200, 404, 500}

Layers == handler.mws
Depth == Len(Layers) + 1
KindAt(d) == IF d \in 1..Len(Layers) THEN Layers[d].k
             ELSE IF d = Depth THEN "handler" ELSE "server"
At(i, mode, kind) == g[i].mode = mode /\ KindAt(g[i].depth) = kind

Goroutine(depth, mode) == [depth |-> depth, mode |-> mode]
IdleGoroutines == [i \in {1, 2} |-> Goroutine(0, "idle")]

NoSpan == [valid |-> FALSE, status |-> "Unset", ended |-> 0, requestID |-> ""]
NoContext == [err |-> "", done |-> FALSE, panicChan |-> <<>>]

\* next.ServeHTTP(w, r) of the layer goroutine i is in
Descend(i) == g' = [g EXCEPT ![i] = Goroutine(g[i].depth + 1, "call")]

\* the layer goroutine i is in returns (mode "ret") or lets a panic through
\* (mode "panic").  Goroutine 2 ends where http.TimeoutHandler started it:
\* a return closes done, a panic is recovered and sent on panicChan.
Leave(i, mode) ==
  LET d == g[i].depth - 1
  IN IF i = 2 /\ KindAt(d) = "Timeout"
     THEN /\ g' = [g EXCEPT ![i] = Goroutine(d, "exit")]
          /\ tctx' = IF mode = "ret" THEN [tctx EXCEPT !.done = TRUE]
                     ELSE [tctx EXCEPT !.panicChan = <<PanicValue>>]
     ELSE /\ g' = [g EXCEPT ![i] = Goroutine(d, mode)]
          /\ UNCHANGED tctx

\* handler.ServeHTTP(rec, req): a request arrives at a composed handler
Serve(hd, method, requestID, tracing, now) ==
  /\ g[1].mode = "idle"
  /\ handler' = hd
  /\ req' = [method |-> method, requestID |-> requestID, tracing |-> tracing,
             now |-> now]
  /\ g' = [g EXCEPT ![1] = Goroutine(1, "call")]
  /\ w' = NewResponse
  /\ UNCHANGED <<wrapped, tw, tctx, span, callLog, logs, nops>>

\* otelhttp.NewHandler: starts the server span and puts it in the context
EnterOTelHTTP(i) ==
  /\ At(i, "call", "OTelHTTP")
  /\ span' = [span EXCEPT !.valid = req.tracing]
  /\ Descend(i)
  /\ UNCHANGED <<handler, req, w, wrapped, tw, tctx, callLog, logs, nops>>

\* otelhttp.NewHandler: the deferred span.End()
LeaveOTelHTTP(i) ==
  /\ g[i].mode \in {"ret", "panic"}
  /\ KindAt(g[i].depth) = "OTelHTTP"
  /\ span' = [span EXCEPT !.ended = @ + 1]
  /\ Leave(i, g[i].mode)
  /\ UNCHANGED <<handler, req, w, wrapped, tw, callLog, logs, nops>>

\* RequestID: the id put in the response header
RequestIDValueNoFallback(r, sp) ==
  IF r.requestID # "" THEN r.requestID
  ELSE IF sp.valid THEN TraceID
  ELSE ""

RequestIDValue(r, sp) ==
  IF r.requestID # "" THEN r.requestID
  ELSE IF sp.valid THEN TraceID
  ELSE ToString(r.now)

EnterRequestID(i) ==
  /\ At(i, "call", "RequestID")
  /\ LET requestID == RequestIDValue(req, span)
     IN /\ span' = [span EXCEPT !.requestID = requestID]
        /\ SetIO(HeaderSetVia(IO, Layers, g[i].depth - 1, "X-Request-ID", requestID))
  /\ Descend(i)
  /\ UNCHANGED <<handler, req, tctx, callLog, logs, nops>>

\* Logging: wraps the writer in a responseWriter with statusCode 200
EnterLogging(i) ==
  /\ At(i, "call", "Logging")
  /\ wrapped' = [statusCode |-> StatusOK]
  /\ Descend(i)
  /\ UNCHANGED <<handler, req, w, tw, tctx, span, callLog, logs, nops>>

\* Logging, after next.ServeHTTP returned: span attributes and one
\* LogHTTPRequest through logger.Global()
ReturnLogging(i) ==
  /\ At(i, "ret", "Logging")
  /\ span' = IF wrapped.statusCode >= 400 THEN [span EXCEPT !.status = "Error"]
             ELSE span
  /\ logs' = Append(logs, LogHTTPRequest(req.method, "/test", wrapped.statusCode, 0,
                                         <<"remote_addr", "user_agent">>))
  /\ Leave(i, "ret")
  /\ UNCHANGED <<handler, req, w, wrapped, tw, callLog, nops>>

EnterRecovery(i) ==
  /\ At(i, "call", "Recovery")
  /\ Descend(i)
  /\ UNCHANGED <<handler, req, w, wrapped, tw, tctx, span, callLog, logs, nops>>

\* Recovery's deferred function when recover() returns a panic value: the
\* panic stops here; LogPanic is then called as an ordinary function by a
\* goroutine that no longer panics, so its own recover() returns nil
RecoveryStatusOK(io, mws, j) ==
  WriteVia(WriteHeaderVia(HeaderSetVia(io, mws, j, "Content-Type", "application/json"),
                          mws, j, StatusOK),
           mws, j, ErrorResponse(PanicValue))

RecoveryResponse(io, mws, j) ==
  WriteVia(WriteHeaderVia(HeaderSetVia(io, mws, j, "Content-Type", "application/json"),
                          mws, j, StatusInternalServerError),
           mws, j, ErrorResponse(PanicValue))

RecoverPanic(i) ==
  /\ At(i, "panic", "Recovery")
  /\ span' = [span EXCEPT !.status = "Error"]
  /\ logs' = logs \o LogPanic(Recover(FALSE, FALSE))
  /\ SetIO(RecoveryResponse(IO, Layers, g[i].depth - 1))
  /\ Leave(i, "ret")
  /\ UNCHANGED <<handler, req, callLog, nops>>

\* helpers.RecoverMiddleware
EnterRecoverMiddleware(i) ==
  /\ At(i, "call", "RecoverMiddleware")
  /\ Descend(i)
  /\ UNCHANGED <<handler, req, w, wrapped, tw, tctx, span, callLog, logs, nops>>

\* the value the terminal handler h panics with: h2 panics with the
\* *http.Request it was called with, the others with a string
PanicValueOf(h) == IF h = "h2" THEN "*http.Request" ELSE PanicValue

\* the type assertion r.(*http.Request) on a recovered value: it holds for
\* a *http.Request and panics for every other value
IsRequest(value) == value = "*http.Request"

\* http.Error(w, error, code)
HTTPError(io, mws, j, error, code) ==
  WriteVia(WriteHeaderVia(HeaderSetVia(io, mws, j, "Content-Type",
                                       "text/plain; charset=utf-8"),
                          mws, j, code),
           mws, j, Text(error))

\* RecoverMiddleware's deferred function when recover() returns a value r:
\* r.(*http.Request) panics again unless r is a request; else LogPanic is
\* called as an ordinary function, the span is ended and 500 is written
RecoverMiddlewareDeferred(i) ==
  /\ At(i, "panic", "RecoverMiddleware")
  /\ IF IsRequest(PanicValueOf(handler.h))
     THEN /\ logs' = logs \o LogPanic(Recover(FALSE, FALSE))
          /\ span' = IF span.valid THEN [span EXCEPT !.ended = @ + 1] ELSE span
          /\ SetIO(HTTPError(IO, Layers, g[i].depth - 1, "Internal Server Error",
                             StatusInternalServerError))
          /\ Leave(i, "ret")
     ELSE /\ Leave(i, "panic")
          /\ UNCHANGED <<w, wrapped, tw, span, logs>>
  /\ UNCHANGED <<handler, req, callLog, nops>>

\* CORS: the headers, and the 204 answer to a preflight request
CORSHeaders ==
  <<<<"Access-Control-Allow-Origin", "*">>,
    <<"Access-Control-Allow-Methods", "GET, POST, PUT, DELETE, OPTIONS">>,
    <<"Access-Control-Allow-Headers",
      "Accept, Content-Type, Content-Length, Accept-Encoding, X-CSRF-Token, Authorization, X-User-Email, X-User-Groups">>,
    <<"Access-Control-Allow-Credentials", "true">>,
    <<"Access-Control-Max-Age", "86400">>>>

RECURSIVE SetHeaders(_, _, _, _)
SetHeaders(io, mws, j, hs) ==
  IF hs = <<>> THEN io
  ELSE SetHeaders(HeaderSetVia(io, mws, j, hs[1][1], hs[1][2]), mws, j, Tail(hs))

IsPreflightNever(r) == FALSE

IsPreflight(r) == r.method = "OPTIONS"

EnterCORS(i) ==
  /\ At(i, "call", "CORS")
  /\ LET j == g[i].depth - 1
         io1 == SetHeaders(IO, Layers, j, CORSHeaders)
     IN IF IsPreflight(req)
        THEN /\ SetIO(WriteHeaderVia(HeaderSetVia(io1, Layers, j, "Content-Type", "text/plain"),
                                     Layers, j, StatusNoContent))
             /\ Leave(i, "ret")
        ELSE /\ SetIO(io1)
             /\ Descend(i)
             /\ UNCHANGED tctx
  /\ UNCHANGED <<handler, req, span, callLog, logs, nops>>

\* Timeout: http.TimeoutHandler starts the inner handler on its own
\* goroutine with a timeoutWriter and waits in a select
EnterTimeout(i) ==
  /\ i = 1
  /\ At(i, "call", "Timeout")
  /\ tw' = NewTimeoutWriter
  /\ tctx' = NoContext
  /\ g' = [g EXCEPT ![1] = Goroutine(g[1].depth, "select"),
                    ![2] = Goroutine(g[1].depth + 1, "call")]
  /\ UNCHANGED <<handler, req, w, wrapped, span, callLog, logs, nops>>

\* the deadline of context.WithTimeout passes while ServeHTTP is waiting
DeadlineFire ==
  /\ g[1].mode = "select"
  /\ tctx.err = ""
  /\ tctx' = [tctx EXCEPT !.err = "DeadlineExceeded"]
  /\ UNCHANGED <<handler, req, g, w, wrapped, tw, span, callLog, logs, nops>>

\* select, case p := <-panicChan: the panic goes on in the serving goroutine
TimeoutPanic ==
  /\ g[1].mode = "select"
  /\ tctx.panicChan # <<>>
  /\ g' = [g EXCEPT ![1] = Goroutine(g[1].depth, "panic")]
  /\ tctx' = [tctx EXCEPT !.panicChan = <<>>]
  /\ UNCHANGED <<handler, req, w, wrapped, tw, span, callLog, logs, nops>>

\* what the done case copies to the outer writer
RECURSIVE CopyHeaders(_, _, _, _, _)
CopyHeaders(io, mws, j, h, names) ==
  IF names = {} THEN io
  ELSE LET n == CHOOSE x \in names : TRUE
           io1 == IF h[n] # "" THEN HeaderSetVia(io, mws, j, n, h[n]) ELSE io
       IN CopyHeaders(io1, mws, j, h, names \ {n})

RECURSIVE WriteAll(_, _, _, _)
WriteAll(io, mws, j, bs) ==
  IF bs = <<>> THEN io
  ELSE WriteAll(WriteVia(io, mws, j, bs[1]), mws, j, Tail(bs))

Flush(io, mws, j) ==
  LET io1 == CopyHeaders(io, mws, j, io.tw.h, HeaderNames)
      code == IF io.tw.wroteHeader THEN io.tw.code ELSE StatusOK
  IN WriteAll(WriteHeaderVia(io1, mws, j, code), mws, j, io.tw.wbuf)

\* select, case <-done: the buffered response goes to the outer writer
TimeoutDone ==
  /\ g[1].mode = "select"
  /\ tctx.done
  /\ SetIO(Flush(IO, Layers, g[1].depth - 1))
  /\ g' = [g EXCEPT ![1] = Goroutine(g[1].depth, "ret")]
  /\ UNCHANGED <<handler, req, tctx, span, callLog, logs, nops>>

\* what the ctx.Done() case writes: 503, the message, and tw.err
ExpireGatewayTimeout(io, mws, j) ==
  [WriteVia(WriteHeaderVia(io, mws, j, 504), mws, j, Text(TimeoutMessage))
     EXCEPT !.tw.err = "ErrHandlerTimeout"]

Expire(io, mws, j) ==
  [WriteVia(WriteHeaderVia(io, mws, j, StatusServiceUnavailable), mws, j,
            Text(TimeoutMessage))
     EXCEPT !.tw.err = "ErrHandlerTimeout"]

\* select, case <-ctx.Done(): ServeHTTP answers and returns; the handler
\* goroutine is left running
TimeoutExpired ==
  /\ g[1].mode = "select"
  /\ tctx.err # ""
  /\ SetIO(Expire(IO, Layers, g[1].depth - 1))
  /\ g' = [g EXCEPT ![1] = Goroutine(g[1].depth, "ret")]
  /\ UNCHANGED <<handler, req, tctx, span, callLog, logs, nops>>

\* an instrumented decorator: records, then calls next
EnterInstrumented(i) ==
  /\ At(i, "call", "mw")
  /\ callLog' = Append(callLog, <<"pre", Layers[g[i].depth].op>>)
  /\ Descend(i)
  /\ UNCHANGED <<handler, req, w, wrapped, tw, tctx, span, logs, nops>>

\* an instrumented decorator after next returned: records, then returns
ReturnInstrumented(i) ==
  /\ At(i, "ret", "mw")
  /\ callLog' = Append(callLog, <<"post", Layers[g[i].depth].op>>)
  /\ Leave(i, "ret")
  /\ UNCHANGED <<handler, req, w, wrapped, tw, span, logs, nops>>

\* the units that do nothing after next.ServeHTTP returned
Return(i) ==
  /\ g[i].mode = "ret"
  /\ KindAt(g[i].depth) \in {"RequestID", "Recovery", "CORS", "Timeout", "RecoverMiddleware"}
  /\ Leave(i, "ret")
  /\ UNCHANGED <<handler, req, w, wrapped, tw, span, callLog, logs, nops>>

\* a panic unwinds through a unit that has no recovering defer
Unwind(i) ==
  /\ g[i].mode = "panic"
  /\ KindAt(g[i].depth) \in {"RequestID", "Logging", "CORS", "Timeout", "mw"}
  /\ Leave(i, "panic")
  /\ UNCHANGED <<handler, req, w, wrapped, tw, span, callLog, logs, nops>>

\* the terminal handler is called
HandlerCall(i) ==
  /\ At(i, "call", "handler")
  /\ callLog' = Append(callLog, <<"handler", handler.h>>)
  /\ g' = [g EXCEPT ![i] = Goroutine(g[i].depth, "run")]
  /\ UNCHANGED <<handler, req, w, wrapped, tw, tctx, span, logs, nops>>

HandlerWriteHeader(i, code) ==
  /\ At(i, "run", "handler")
  /\ nops < MaxHandlerOps
  /\ nops' = nops + 1
  /\ SetIO(WriteHeaderVia(IO, Layers, g[i].depth - 1, code))
  /\ UNCHANGED <<handler, req, g, tctx, span, callLog, logs>>

HandlerWrite(i) ==
  /\ At(i, "run", "handler")
  /\ nops < MaxHandlerOps
  /\ nops' = nops + 1
  /\ SetIO(WriteVia(IO, Layers, g[i].depth - 1, Text("OK")))
  /\ UNCHANGED <<handler, req, g, tctx, span, callLog, logs>>

HandlerPanic(i) ==
  /\ At(i, "run", "handler")
  /\ Leave(i, "panic")
  /\ UNCHANGED <<handler, req, w, wrapped, tw, span, callLog, logs, nops>>

HandlerReturn(i) ==
  /\ At(i, "run", "handler")
  /\ Leave(i, "ret")
  /\ UNCHANGED <<handler, req, w, wrapped, tw, span, callLog, logs, nops>>

\* the outermost ServeHTTP returned: the server sends what was not sent yet
Finish ==
  /\ g[1] = Goroutine(0, "ret")
  /\ w' = ResponseWriteHeader(w, StatusOK)
  /\ g' = [g EXCEPT ![1] = Goroutine(0, "finished")]
  /\ UNCHANGED <<handler, req, wrapped, tw, tctx, span, callLog, logs, nops>>

\* ----------------------------------------------------------- configuration
\* sampling ratios are counted in tenths: TraceRatio 10 is the ratio 1.0
RatioOne == 10
DefaultTraceRatio == 1
DefaultMaxBatchSize == 512
DefaultMaxQueueSize == 2048
TraceRatios == {-1, 0, 10, 11}
ServiceNames == {"", "svc"}
ProjectIDs == {"", "proj"}
EnvProjects == {"", "env-proj"}
TraceIDs == {0, 5, 9}

\* logger.Config
LoggerConfig(pid, console, gcp, level) ==
  [ProjectID |-> pid, ServiceName |-> "", LogName |-> "", EnableConsole |-> console,
   EnableGCP |-> gcp, Level |-> level]
LoggerSetDefaults(c) ==
  LET sn == IF c.ServiceName = "" THEN "default-service" ELSE c.ServiceName
  IN [c EXCEPT !.ServiceName = sn, !.LogName = IF @ = "" THEN sn ELSE @]
LoggerValidate(c) ==
  IF c.EnableGCP /\ c.ProjectID = ""
  THEN "ProjectID is required when GCP logging is enabled" ELSE ""
\* a Logger: its config and the handler of its slog.Logger, which keeps the
\* level it was created with (hlevel) and the fields bound by With (attrs)
Logger(c, hlevel, attrs) ==
  [ProjectID |-> c.ProjectID, ServiceName |-> c.ServiceName, LogName |-> c.LogName,
   EnableConsole |-> c.EnableConsole, EnableGCP |-> c.EnableGCP, Level |-> c.Level,
   hlevel |-> hlevel, attrs |-> attrs]
\* the Logger Global() returns before InitGlobal: a text handler on io.Discard
DefaultLogger == Logger(LoggerConfig("", FALSE, FALSE, LevelInfo), LevelInfo, <<>>)
\* a *Logger variable holds no Logger (nil) or one Logger
NoLogger == <<>>
\* logger.NewLogger: the error and the Logger it returns
NewLogger(config) ==
  LET c == LoggerSetDefaults(config)
  IN IF LoggerValidate(c) # "" THEN [err |-> "invalid config", logger |-> NoLogger]
     ELSE [err |-> "", logger |-> <<Logger(c, c.Level, <<>>)>>]
\* Logger.SetLevel: the level is stored and a new handler is created from
\* the config
SetLevel(l, level) == [l EXCEPT !.Level = level, !.hlevel = level, !.attrs = <<>>]
\* closed: stdout has been closed, writes to it fail
NoSinks == [stdout |-> <<>>, stderr |-> <<>>, closed |-> FALSE]

\* createHandler and the handlers' Enabled / Handle: each enabled sink
\* writes the record when the record's level reaches the configured level
Handle(l, s, rec) ==
  LET console == l.EnableConsole /\ rec.level >= l.hlevel
      gcp == l.EnableGCP /\ rec.level >= l.hlevel
      full == [rec EXCEPT !.args = l.attrs \o @]
  IN [stdout |-> IF console /\ ~s.closed THEN Append(s.stdout, full) ELSE s.stdout,
      stderr |-> IF gcp /\ ~(console /\ s.closed) THEN Append(s.stderr, full)
                 ELSE s.stderr,
      closed |-> s.closed]

\* the client's Config
ClientConfig(sn, pid, tracing, ratio) ==
  [ServiceName |-> sn, ProjectID |-> pid, EnableConsole |-> FALSE, EnableGCP |-> FALSE,
   LogLevel |-> LevelInfo, EnableTracing |-> tracing, TraceRatio |-> ratio]
ClientConfigs ==
  {ClientConfig(sn, pid, tr, r) :
     sn \in ServiceNames, pid \in ProjectIDs, tr \in BOOLEAN, r \in TraceRatios}

ClientSetDefaults(c) ==
  [c EXCEPT !.ServiceName = IF @ = "" THEN "default-service" ELSE @,
            !.TraceRatio = IF @ = 0 THEN DefaultTraceRatio ELSE @,
            !.LogLevel = IF @ = 0 THEN LevelInfo ELSE @]

ClientValidateNoUpper(c) ==
  IF c.ServiceName = "" THEN "ServiceName is required"
  ELSE IF c.ProjectID = "" THEN "ProjectID is required"
  ELSE IF c.TraceRatio < 0 THEN "TraceRatio must be between 0.0 and 1.0"
  ELSE ""

ClientValidate(c) ==
  IF c.ServiceName = "" THEN "ServiceName is required"
  ELSE IF c.ProjectID = "" THEN "ProjectID is required"
  ELSE IF c.TraceRatio < 0 \/ c.TraceRatio > RatioOne
       THEN "TraceRatio must be between 0.0 and 1.0"
  ELSE ""

\* telemetry's Config
TelemetryConfig(sn, pid, tracing, ratio, batch, queue) ==
  [ServiceName |-> sn, ProjectID |-> pid, EnableTracing |-> tracing,
   TraceRatio |-> ratio, MaxBatchSize |-> batch, MaxQueueSize |-> queue]
BatchQueueSizes ==
  {<<0, 0>>, <<DefaultMaxBatchSize, 0>>, <<DefaultMaxBatchSize, DefaultMaxQueueSize>>}
TelemetryConfigs ==
  {TelemetryConfig(sn, pid, tr, r, bq[1], bq[2]) :
     sn \in ServiceNames, pid \in ProjectIDs, tr \in BOOLEAN, r \in TraceRatios,
     bq \in BatchQueueSizes}

TelemetrySetDefaults(c, env) ==
  [c EXCEPT !.ServiceName = IF @ = "" THEN "default-service" ELSE @,
            !.TraceRatio = IF @ = 0 THEN DefaultTraceRatio ELSE @,
            !.ProjectID = IF @ = "" THEN env ELSE @,
            !.MaxBatchSize = IF @ = 0 THEN DefaultMaxBatchSize ELSE @,
            !.MaxQueueSize = IF @ = 0 THEN DefaultMaxQueueSize ELSE @]

TelemetryValidate(c) ==
  IF c.ServiceName = "" THEN "ServiceName is required"
  ELSE IF c.EnableTracing /\ c.ProjectID = ""
       THEN "ProjectID is required when tracing is enabled"
  ELSE IF c.TraceRatio < 0 \/ c.TraceRatio > RatioOne
       THEN "TraceRatio must be between 0.0 and 1.0"
  ELSE IF c.MaxBatchSize <= 0 THEN "MaxBatchSize must be positive"
  ELSE IF c.MaxQueueSize <= 0 THEN "MaxQueueSize must be positive"
  ELSE ""

\* the sampler Provider.setupTracing configures
Sampler(ratio) ==
  IF ratio >= RatioOne THEN [kind |-> "AlwaysSample", ratio |-> RatioOne]
  ELSE IF ratio <= 0 THEN [kind |-> "NeverSample", ratio |-> 0]
  ELSE [kind |-> "TraceIDRatioBased", ratio |-> ratio]

NoSampler == [kind |-> "", ratio |-> 0]

\* the sampler's decision for a root span with trace id tid: a ratio sampler
\* takes the trace ids below its share of the id space
ShouldSample(sampler, tid) ==
  CASE sampler.kind = "AlwaysSample" -> TRUE
    [] sampler.kind = "NeverSample" -> FALSE
    [] OTHER -> tid < sampler.ratio

\* telemetry.NewProvider: the error and the Provider it returns; setup is FALSE
\* when creating the resource or the Cloud Trace exporter fails
NoProvider == [EnableTracing |-> FALSE, sampler |-> NoSampler, shutdown |-> FALSE]
NewProvider(config, env, setup) ==
  LET c == TelemetrySetDefaults(config, env)
      verr == TelemetryValidate(c)
  IN IF verr # "" THEN [err |-> "invalid telemetry config", provider |-> NoProvider]
     ELSE IF c.EnableTracing /\ ~setup
          THEN [err |-> "failed to setup tracing", provider |-> NoProvider]
     ELSE [err |-> "",
           provider |-> [EnableTracing |-> c.EnableTracing,
                         sampler |-> IF c.EnableTracing THEN Sampler(c.TraceRatio)
                                     ELSE NoSampler,
                         shutdown |-> FALSE]]

\* the result of the last call: the operation, the error, the provider
\* returned (its position in providers, 0 for none), the client returned,
\* for a started span, the trace id and the sampling decision, and the
\* Logger returned or logged through (set by the calls that have one)
Out(op, err, provider, client, tid, sampled) ==
  [op |-> op, err |-> err, provider |-> provider, client |-> client,
   tid |-> tid, sampled |-> sampled, logger |-> NoLogger]
NoClient == [logger |-> NoLogger, telemetry |-> 0]
NoConfig == [ServiceName |-> "", ProjectID |-> "", TraceRatio |-> 0]
NoOut == Out("", "", 0, NoClient, 0, FALSE)

\* ---------------------------------------------------------- initial state
\* a call record: the operation, its receiver and arguments, the chain and
\* the handler it returned
Call(op, recv, middlewares, operationName, timeout, chain, hd) ==
  [op |-> op, recv |-> recv, middlewares |-> middlewares,
   operationName |-> operationName, timeout |-> timeout, chain |-> chain, hd |-> hd]
NoHandler == [mws |-> <<>>, h |-> ""]
NoCall == Call("", 0, <<>>, "", 0, 0, NoHandler)
NoRequest == [method |-> "GET", requestID |-> "", tracing |-> FALSE, now |-> 1]

InitChains ==
  /\ chains = <<>>
  /\ composed = <<>>
  /\ call = NoCall

InitServe ==
  /\ handler = HandlerFunc("h1")
  /\ req = NoRequest
  /\ g = IdleGoroutines
  /\ w = NewResponse
  /\ wrapped = [statusCode |-> 0]
  /\ tw = NewTimeoutWriter
  /\ tctx = NoContext
  /\ span = NoSpan
  /\ callLog = <<>>
  /\ logs = <<>>
  /\ nops = 0

NoLock == [writer |-> FALSE, readers |-> 0]
IdlePC == [setLevel |-> "idle", log |-> "idle", with |-> "idle"]
NoSeen == [log |-> <<>>, with |-> <<>>]
\* no WithTimeout call yet: caller and task positions, the value fn returned,
\* the buffer of the done channel, the error of the timeout context, the
\* span (valid, status, number of End calls) and the value returned
NoWithTimeout ==
  [caller |-> "idle", task |-> "idle", fnErr |-> "", done |-> <<>>, ctxErr |-> "",
   valid |-> FALSE, status |-> "Unset", ended |-> 0, result |-> <<>>]

\* e: the project the environment names (GOOGLE_CLOUD_PROJECT / GCP_PROJECT)
InitCfg(e) ==
  /\ cfg = NoConfig
  /\ out = NoOut
  /\ providers = <<>>
  /\ globals = [env |-> e, once |-> FALSE, globalLogger |-> NoLogger,
                globalProvider |-> 0, otel |-> 0]
  /\ lg = DefaultLogger
  /\ sinks = NoSinks
  /\ steps = <<>>
  /\ derived = <<>>
  /\ mu = NoLock
  /\ pc = IdlePC
  /\ seen = NoSeen
  /\ wt = NoWithTimeout

Init == InitChains /\ InitServe /\ InitCfg("")

\* ------------------------------------------- serving through the units
\* the handlers requests are served by: the prebuilt chains and single units
ServedHandlers ==
  {Then(StandardChain(op), HandlerFunc("h1")) : op \in Operations}
  \cup {Then(APIChain(op, t), HandlerFunc("h1")) : op \in Operations, t \in Timeouts}
  \cup {Then(NewChain(<<m>>), HandlerFunc("h1")) :
          m \in {Recovery, CORS, RequestID, Logging, Timeout(2)}}
  \cup {Then(NewChain(<<RecoverMiddleware>>), HandlerFunc(h)) : h \in HandlerNames}

Step(i) ==
  \/ EnterOTelHTTP(i) \/ LeaveOTelHTTP(i)
  \/ EnterRequestID(i)
  \/ EnterLogging(i) \/ ReturnLogging(i)
  \/ EnterRecovery(i) \/ RecoverPanic(i)
  \/ EnterRecoverMiddleware(i) \/ RecoverMiddlewareDeferred(i)
  \/ EnterCORS(i)
  \/ EnterTimeout(i)
  \/ Return(i) \/ Unwind(i)
  \/ HandlerCall(i)
  \/ \E code \in HandlerCodes : HandlerWriteHeader(i, code)
  \/ HandlerWrite(i) \/ HandlerPanic(i) \/ HandlerReturn(i)

Next ==
  \/ /\ \E hd \in ServedHandlers, m \in Methods, id \in InboundRequestIDs,
          tr \in BOOLEAN, now \in Clock : Serve(hd, m, id, tr, now)
     /\ UNCHANGED <<chainVars, cfgVars>>
  \/ /\ \E i \in {1, 2} : Step(i)
     /\ UNCHANGED <<chainVars, cfgVars>>
  \/ /\ (DeadlineFire \/ TimeoutPanic \/ TimeoutDone \/ TimeoutExpired \/ Finish)
     /\ UNCHANGED <<chainVars, cfgVars>>

Spec == Init /\ [][Next]_vars

\* ------------------------------------------------- building chains
MaxChains == 1

RECURSIVE SeqsUpTo(_, _)
SeqsUpTo(S, n) ==
  IF n = 0 THEN {<<>>}
  ELSE LET shorter == SeqsUpTo(S, n - 1)
       IN shorter \cup {Append(q, x) : q \in {r \in shorter : Len(r) = n - 1}, x \in S}

InstrumentedLists(n) == SeqsUpTo({Instrumented(a) : a \in InstrumentedNames}, n)

Building == g[1].mode = "idle" /\ Len(chains) < MaxChains

\* chain := NewChain(middlewares...)
NewChainCall(middlewares) ==
  /\ Building
  /\ chains' = Append(chains, NewChain(middlewares))
  /\ call' = Call("NewChain", 0, middlewares, "", 0, Len(chains) + 1, NoHandler)
  /\ UNCHANGED composed

\* chain := client.StandardChain(operationName)
StandardChainCall(operationName) ==
  /\ Building
  /\ chains' = Append(chains, StandardChain(operationName))
  /\ call' = Call("StandardChain", 0, <<>>, operationName, 0, Len(chains) + 1, NoHandler)
  /\ UNCHANGED composed

\* chain := client.APIChain(operationName, timeout)
APIChainCall(operationName, timeout) ==
  /\ Building
  /\ chains' = Append(chains, APIChain(operationName, timeout))
  /\ call' = Call("APIChain", 0, <<>>, operationName, timeout, Len(chains) + 1, NoHandler)
  /\ UNCHANGED composed

\* chains[c].Append(middlewares...): changes the receiver and returns it
AppendCall(c, middlewares) ==
  /\ g[1].mode = "idle"
  /\ c \in 1..Len(chains)
  /\ Len(chains[c].middlewares) + Len(middlewares) <= MaxChainLen
  /\ chains' = [chains EXCEPT ![c] = ChainAppend(@, middlewares)]
  /\ call' = Call("Append", c, middlewares, "", 0, c, NoHandler)
  /\ UNCHANGED composed

\* chains[c].Then(h): composes, the receiver is only read
ThenCallDrains(c, h) ==
  /\ g[1].mode = "idle"
  /\ c \in 1..Len(chains)
  /\ Len(composed) < MaxCalls
  /\ composed' = Append(composed, [chain |-> c, hd |-> Then(chains[c], HandlerFunc(h))])
  /\ call' = Call("Then", c, <<>>, "", 0, 0, Then(chains[c], HandlerFunc(h)))
  /\ chains' = [chains EXCEPT ![c] = NewChain(<<>>)]

ThenCall(c, h) ==
  /\ g[1].mode = "idle"
  /\ c \in 1..Len(chains)
  /\ Len(composed) < MaxCalls
  /\ composed' = Append(composed, [chain |-> c, hd |-> Then(chains[c], HandlerFunc(h))])
  /\ call' = Call("Then", c, <<>>, "", 0, 0, Then(chains[c], HandlerFunc(h)))
  /\ UNCHANGED chains

\* chains[c].ThenFunc(h)
ThenFuncCall(c, h) ==
  /\ g[1].mode = "idle"
  /\ c \in 1..Len(chains)
  /\ Len(composed) < MaxCalls
  /\ composed' = Append(composed, [chain |-> c, hd |-> ThenFunc(chains[c], HandlerFunc(h))])
  /\ call' = Call("ThenFunc", c, <<>>, "", 0, 0, ThenFunc(chains[c], HandlerFunc(h)))
  /\ UNCHANGED chains

NextChain ==
  /\ \/ \E ms \in InstrumentedLists(MaxChainLen) : NewChainCall(ms)
     \/ \E op \in Operations : StandardChainCall(op)
     \/ \E op \in Operations, t \in Timeouts : APIChainCall(op, t)
     \/ \E c \in 1..MaxChains, ms \in InstrumentedLists(MaxChainLen) \ {<<>>} :
          AppendCall(c, ms)
     \/ \E c \in 1..MaxChains, h \in HandlerNames : ThenCall(c, h)
     \/ \E c \in 1..MaxChains, h \in HandlerNames : ThenFuncCall(c, h)
  /\ UNCHANGED <<serveVars, cfgVars>>

SpecChain == Init /\ [][NextChain]_vars


\* ------------------------------------------------------ logging methods
MaxLogs == 1
\* method, path, duration and extra fields of the calls
LogInputs ==
  {<<"GET", "/api/users", 0, <<"user_agent", "test-agent">> >>,
   <<"POST", "/", 1500, <<>> >>}
StatusCodes == {-1, 0, 200, 399, 400, 499, 500, 600}
LoggerLevels == {LevelDebug, LevelInfo, LevelError}

\* logger.NewLogger: the Logger under use is replaced by the new one
NewLoggerCall(config) ==
  /\ cfg' = config
  /\ LET r == NewLogger(config)
     IN /\ out' = Out("NewLogger", r.err, 0, NoClient, 0, FALSE)
        /\ lg' = IF r.err # "" THEN lg ELSE r.logger[1]
  /\ UNCHANGED <<chainVars, serveVars, providers, globals, sinks, steps, derived, lockVars, wt>>

\* Logger.SetLevel
SetLevelCall(level) ==
  /\ lg' = SetLevel(lg, level)
  /\ UNCHANGED <<chainVars, serveVars, cfg, out, providers, globals, sinks, steps, derived,
                 lockVars, wt>>

\* Logger.LogHTTPRequest on the Logger under use
LogHTTPRequestCall(method, path, statusCode, duration, args) ==
  /\ Len(logs) < MaxLogs
  /\ LET rec == LogHTTPRequest(method, path, statusCode, duration, args)
     IN /\ logs' = Append(logs, rec)
        /\ sinks' = Handle(lg, sinks, rec)
  /\ UNCHANGED <<chainVars, handler, req, g, w, wrapped, tw, tctx, span, callLog, nops,
                 cfg, out, providers, globals, lg, steps, derived, lockVars, wt>>

NextLog ==
  \/ \E pid \in ProjectIDs, console \in BOOLEAN, gcp \in BOOLEAN :
       NewLoggerCall(LoggerConfig(pid, console, gcp, LevelInfo))
  \/ \E level \in LoggerLevels : SetLevelCall(level)
  \/ \E in \in LogInputs, s \in StatusCodes :
       LogHTTPRequestCall(in[1], in[2], s, in[3], in[4])

SpecLog == Init /\ [][NextLog]_vars

\* ------------------------------------------- validation and construction
MaxProviders == 2

\* Config.Validate of the client's Config
ClientValidateCall(config) ==
  /\ cfg' = config
  /\ out' = Out("Config.Validate", ClientValidate(config), 0, NoClient, 0, FALSE)
  /\ UNCHANGED <<chainVars, serveVars, providers, globals, lg, sinks, steps, derived,
                 lockVars, wt>>

\* Config.Validate of telemetry's Config
TelemetryValidateCall(config) ==
  /\ cfg' = config
  /\ out' = Out("telemetry.Config.Validate", TelemetryValidate(config), 0, NoClient, 0, FALSE)
  /\ UNCHANGED <<chainVars, serveVars, providers, globals, lg, sinks, steps, derived,
                 lockVars, wt>>

\* telemetry.NewProvider; setupTracing makes the new tracer provider the
\* otel global one
NewProviderCall(config, setup) ==
  /\ Len(providers) < MaxProviders
  /\ cfg' = config
  /\ LET r == NewProvider(config, globals.env, setup)
     IN IF r.err # ""
        THEN /\ out' = Out("NewProvider", r.err, 0, NoClient, 0, FALSE)
             /\ UNCHANGED <<providers, globals>>
        ELSE /\ providers' = Append(providers, r.provider)
             /\ globals' = [globals EXCEPT !.otel = IF r.provider.EnableTracing
                                                    THEN Len(providers) + 1 ELSE @]
             /\ out' = Out("NewProvider", "", Len(providers) + 1, NoClient, 0, FALSE)
  /\ UNCHANGED <<chainVars, serveVars, lg, sinks, steps, derived, lockVars, wt>>

\* the telemetry.Config NewClient derives from its own
TelemetryConfigOf(c) ==
  TelemetryConfig(c.ServiceName, c.ProjectID, c.EnableTracing, c.TraceRatio, 0, 0)

\* gcpmiddleware.NewClient: defaults, validation, the client's logger, the
\* global logger (sync.Once), the client's provider, the global provider
\* (a second NewProvider) and the closing Info record
NewClientCall(config, setup1, setup2) ==
  /\ Len(providers) + 2 <= MaxProviders
  /\ cfg' = config
  /\ LET c == ClientSetDefaults(config)
         lc == [LoggerConfig(c.ProjectID, c.EnableConsole, c.EnableGCP, c.LogLevel)
                  EXCEPT !.ServiceName = c.ServiceName, !.LogName = c.ServiceName]
         log == NewLogger(lc)
         tc == TelemetryConfigOf(c)
         r1 == NewProvider(tc, globals.env, setup1)
         r2 == NewProvider(tc, globals.env, setup2)
         gl == [globals EXCEPT !.once = TRUE,
                               !.globalLogger = IF globals.once THEN @ ELSE log.logger]
         rec == [level |-> LevelInfo, msg |-> "Middleware client initialized",
                 method |-> "", path |-> "", status |-> 0, duration |-> 0,
                 args |-> <<"service", "version", "environment", "tracing_enabled">>]
         fail(e) == out' = Out("NewClient", e, 0, NoClient, 0, FALSE)
     IN IF ClientValidate(c) # ""
        THEN /\ fail("invalid config")
             /\ UNCHANGED <<providers, globals, sinks>>
        ELSE IF log.err # ""
        THEN /\ fail("failed to initialize logger")
             /\ UNCHANGED <<providers, globals, sinks>>
        ELSE IF ~c.EnableTracing
        THEN /\ out' = Out("NewClient", "", 0, [logger |-> log.logger, telemetry |-> 0], 0, FALSE)
             /\ globals' = gl
             /\ sinks' = Handle(log.logger[1], sinks, rec)
             /\ UNCHANGED providers
        ELSE IF r1.err # ""
        THEN /\ fail("failed to initialize telemetry")
             /\ globals' = gl
             /\ UNCHANGED <<providers, sinks>>
        ELSE IF r2.err # ""
        THEN /\ fail("failed to initialize global telemetry")
             /\ providers' = Append(providers, r1.provider)
             /\ globals' = [gl EXCEPT !.otel = Len(providers) + 1]
             /\ UNCHANGED sinks
        ELSE /\ out' = Out("NewClient", "", Len(providers) + 1,
                           [logger |-> log.logger, telemetry |-> Len(providers) + 1], 0, FALSE)
             /\ providers' = providers \o <<r1.provider, r2.provider>>
             /\ globals' = [gl EXCEPT !.otel = Len(providers) + 2,
                                      !.globalProvider = Len(providers) + 2]
             /\ sinks' = Handle(log.logger[1], sinks, rec)
  /\ UNCHANGED <<chainVars, serveVars, lg, steps, derived, lockVars, wt>>

\* a root span started on the tracer of provider p
StartSpan(p, tid) ==
  /\ p \in 1..Len(providers)
  /\ providers[p].EnableTracing
  /\ out' = Out("Start", "", p, NoClient, tid, ShouldSample(providers[p].sampler, tid))
  /\ UNCHANGED <<chainVars, serveVars, cfg, providers, globals, lg, sinks, steps, derived,
                 lockVars, wt>>

NextCfg ==
  \/ \E c \in ClientConfigs : ClientValidateCall(c)
  \/ \E c \in TelemetryConfigs : TelemetryValidateCall(c)
  \/ \E c \in TelemetryConfigs, setup \in BOOLEAN : NewProviderCall(c, setup)
  \/ \E c \in ClientConfigs, setup1 \in BOOLEAN, setup2 \in BOOLEAN :
       NewClientCall(c, setup1, setup2)
  \/ \E p \in 1..MaxProviders, tid \in TraceIDs : StartSpan(p, tid)

InitEnv == \E e \in EnvProjects : InitChains /\ InitServe /\ InitCfg(e)

SpecCfg == InitEnv /\ [][NextCfg]_vars

\* ------------------------------------------------- shutdown and globals
MaxShutdowns == 2

\* Provider.Shutdown: without a tracer provider (tracing disabled) it
\* returns nil; the sdk's TracerProvider.Shutdown flushes and closes once
\* (fail: the flush fails) and returns nil on every later call
ProviderShutdownNoGuard(p, fail) ==
  IF ~p.EnableTracing THEN [err |-> "panic", provider |-> p]
  ELSE IF p.shutdown THEN [err |-> "", provider |-> p]
  ELSE [err |-> IF fail THEN "shutdown failed" ELSE "",
        provider |-> [p EXCEPT !.shutdown = TRUE]]
ProviderShutdown(p, fail) ==
  IF ~p.EnableTracing THEN [err |-> "", provider |-> p]
  ELSE IF p.shutdown THEN [err |-> "", provider |-> p]
  ELSE [err |-> IF fail THEN "shutdown failed" ELSE "",
        provider |-> [p EXCEPT !.shutdown = TRUE]]

\* Logger.Close
LoggerClose(l) == ""

\* Client.Shutdown on client c with the providers ps: the error returned,
\* the steps attempted, whether the telemetry step failed, the providers
\* afterwards and the records logged
ClientShutdown(c, ps, fail) ==
  LET t == c.telemetry
      r == IF t = 0 THEN [err |-> "", provider |-> NoProvider]
           ELSE ProviderShutdown(ps[t], fail)
      ps2 == IF t = 0 THEN ps ELSE [ps EXCEPT ![t] = r.provider]
      info == [level |-> LevelInfo, msg |-> "Shutting down middleware client",
               method |-> "", path |-> "", status |-> 0, duration |-> 0, args |-> <<>>]
      error == [level |-> LevelError, msg |-> "Failed to shutdown telemetry",
                method |-> "", path |-> "", status |-> 0, duration |-> 0,
                args |-> <<"error">>]
  IN IF r.err = "panic"
     THEN [err |-> "panic", steps |-> <<"telemetry.Shutdown">>, failed |-> FALSE,
           providers |-> ps, records |-> <<info>>]
     ELSE IF r.err # ""
     THEN [err |-> "failed to shutdown telemetry", steps |-> <<"telemetry.Shutdown">>,
           failed |-> TRUE, providers |-> ps2, records |-> <<info, error>>]
     ELSE [err |-> IF LoggerClose(c.logger[1]) # "" THEN "failed to close logger" ELSE "",
           steps |-> (IF t = 0 THEN <<>> ELSE <<"telemetry.Shutdown">>) \o <<"logger.Close">>,
           failed |-> FALSE, providers |-> ps2, records |-> <<info>>]

RECURSIVE HandleAll(_, _, _)
HandleAll(l, s, records) ==
  IF records = <<>> THEN s ELSE HandleAll(l, Handle(l, s, Head(records)), Tail(records))

\* one entry of steps
ShutdownEntry(op, target, err, attempted, failed) ==
  [op |-> op, target |-> target, err |-> err, steps |-> attempted, failed |-> failed]

\* the configs the clients and global providers of this part are built from
LifeClientConfigs == {ClientConfig("svc", "proj", tr, RatioOne) : tr \in BOOLEAN}
LifeTelemetryConfigs ==
  {TelemetryConfig("svc", pid, tr, RatioOne, 0, 0) : pid \in ProjectIDs, tr \in BOOLEAN}

\* client.Shutdown(ctx) on the client the last NewClient returned
ShutdownCall(fail) ==
  /\ out.client.logger # NoLogger
  /\ Len(steps) < MaxShutdowns
  /\ LET r == ClientShutdown(out.client, providers, fail)
     IN /\ out' = Out("Shutdown", r.err, 0, out.client, 0, FALSE)
        /\ providers' = r.providers
        /\ sinks' = HandleAll(out.client.logger[1], sinks, r.records)
        /\ steps' = Append(steps, ShutdownEntry("Client.Shutdown", <<out.client>>, r.err,
                                                r.steps, r.failed))
  /\ UNCHANGED <<chainVars, serveVars, cfg, globals, lg, derived, lockVars, wt>>

\* providers[p].Shutdown(ctx)
ProviderShutdownCall(p, fail) ==
  /\ p \in 1..Len(providers)
  /\ Len(steps) < MaxShutdowns
  /\ LET r == ProviderShutdown(providers[p], fail)
     IN /\ out' = Out("Provider.Shutdown", r.err, p, out.client, 0, FALSE)
        /\ providers' = [providers EXCEPT ![p] = r.provider]
        /\ steps' = Append(steps, ShutdownEntry("Provider.Shutdown", <<p>>, r.err,
                                                <<"tracerProvider.Shutdown">>, r.err # ""))
  /\ UNCHANGED <<chainVars, serveVars, cfg, globals, lg, sinks, derived, lockVars, wt>>

\* Close() on the logger of the client the last NewClient returned
LoggerCloseCall ==
  /\ out.client.logger # NoLogger
  /\ Len(steps) < MaxShutdowns
  /\ out' = Out("Logger.Close", LoggerClose(out.client.logger[1]), 0, out.client, 0, FALSE)
  /\ steps' = Append(steps, ShutdownEntry("Logger.Close", out.client.logger,
                                          LoggerClose(out.client.logger[1]), <<>>, FALSE))
  /\ UNCHANGED <<chainVars, serveVars, cfg, providers, globals, lg, sinks, derived, lockVars, wt>>

\* telemetry.InitGlobal(ctx, config)
TelemetryInitGlobalCall(config, setup) ==
  /\ Len(providers) < MaxProviders
  /\ cfg' = config
  /\ LET r == NewProvider(config, globals.env, setup)
     IN IF r.err # ""
        THEN /\ out' = Out("telemetry.InitGlobal", r.err, 0, out.client, 0, FALSE)
             /\ UNCHANGED <<providers, globals>>
        ELSE /\ providers' = Append(providers, r.provider)
             /\ globals' = [globals EXCEPT !.globalProvider = Len(providers) + 1,
                                           !.otel = IF r.provider.EnableTracing
                                                    THEN Len(providers) + 1 ELSE @]
             /\ out' = Out("telemetry.InitGlobal", "", 0, out.client, 0, FALSE)
  /\ UNCHANGED <<chainVars, serveVars, lg, sinks, steps, derived, lockVars, wt>>

\* telemetry.Global(): the global provider, 0 for a nil *Provider
TelemetryGlobal(gl) == gl.globalProvider
TelemetryGlobalCall ==
  /\ out' = Out("telemetry.Global", "", TelemetryGlobal(globals), out.client, 0, FALSE)
  /\ UNCHANGED <<chainVars, serveVars, cfg, providers, globals, lg, sinks, steps, derived,
                 lockVars, wt>>

\* logger.InitGlobal(config): NewLogger runs inside once.Do
LoggerInitGlobalCall(config) ==
  /\ LET r == NewLogger(config)
     IN IF globals.once
        THEN /\ out' = Out("logger.InitGlobal", "", 0, out.client, 0, FALSE)
             /\ UNCHANGED globals
        ELSE /\ out' = Out("logger.InitGlobal", r.err, 0, out.client, 0, FALSE)
             /\ globals' = [globals EXCEPT !.once = TRUE, !.globalLogger = r.logger]
  /\ UNCHANGED <<chainVars, serveVars, cfg, providers, lg, sinks, steps, derived, lockVars, wt>>

\* logger.Global(): the global logger, or a Logger on io.Discard before it is set
LoggerGlobal(gl) ==
  IF gl.globalLogger = NoLogger THEN <<DefaultLogger>> ELSE gl.globalLogger
LoggerGlobalCall ==
  /\ out' = [Out("logger.Global", "", 0, out.client, 0, FALSE)
               EXCEPT !.logger = LoggerGlobal(globals)]
  /\ UNCHANGED <<chainVars, serveVars, cfg, providers, globals, lg, sinks, steps, derived,
                 lockVars, wt>>

NextLife ==
  \/ \E c \in LifeClientConfigs, setup1 \in BOOLEAN, setup2 \in BOOLEAN :
       NewClientCall(c, setup1, setup2)
  \/ \E fail \in BOOLEAN : ShutdownCall(fail)
  \/ \E p \in 1..MaxProviders, fail \in BOOLEAN : ProviderShutdownCall(p, fail)
  \/ LoggerCloseCall
  \/ \E c \in LifeTelemetryConfigs, setup \in BOOLEAN : TelemetryInitGlobalCall(c, setup)
  \/ TelemetryGlobalCall
  \/ \E c \in {LoggerConfig(pid, FALSE, TRUE, LevelInfo) : pid \in ProjectIDs} :
       LoggerInitGlobalCall(c)
  \/ LoggerGlobalCall

SpecLife == Init /\ [][NextLife]_vars

\* ------------------------------------------- sinks and derived loggers
MaxRecords == 1
MaxDerived == 1

\* the fields bound by With and the names given to WithLogName
FieldLists == {<<"component">>}
LogNames == {"audit"}
\* the levels the log calls and SetLevel are made with
SinkLevels == {LevelInfo, LevelError}

\* Logger.With: the receiver afterwards and the Logger returned
WithShared(l, args) ==
  [receiver |-> [l EXCEPT !.attrs = @ \o args], logger |-> [l EXCEPT !.attrs = @ \o args]]
With(l, args) ==
  [receiver |-> l, logger |-> [l EXCEPT !.attrs = @ \o args]]

\* Logger.WithLogName
WithLogName(l, logName) ==
  [receiver |-> l, logger |-> [l EXCEPT !.LogName = logName, !.attrs = @ \o <<"log_name">>]]

\* the Logger a call is made on: 0 for lg, k for derived[k]
Receiver(who) == IF who = 0 THEN lg ELSE derived[who]

Derive(who, r) ==
  /\ Len(derived) < MaxDerived
  /\ who \in 0..Len(derived)
  /\ lg' = IF who = 0 THEN r.receiver ELSE lg
  /\ derived' = Append(IF who = 0 THEN derived ELSE [derived EXCEPT ![who] = r.receiver],
                       r.logger)
  /\ UNCHANGED <<chainVars, serveVars, cfg, providers, globals, sinks, steps, lockVars, wt>>

\* child := l.With(args...)
WithCall(who, args) ==
  /\ who \in 0..Len(derived)
  /\ LET r == With(Receiver(who), args)
     IN /\ Derive(who, r)
        /\ out' = [Out("With", "", 0, NoClient, 0, FALSE) EXCEPT !.logger = <<r.logger>>]

\* child := l.WithLogName(logName)
WithLogNameCall(who, logName) ==
  /\ who \in 0..Len(derived)
  /\ LET r == WithLogName(Receiver(who), logName)
     IN /\ Derive(who, r)
        /\ out' = [Out("WithLogName", "", 0, NoClient, 0, FALSE) EXCEPT !.logger = <<r.logger>>]

\* l.Debug / Info / Warn / Error / Critical(msg): slog checks Enabled, calls
\* the handler and drops the handler's error
LogRecord(level) ==
  [level |-> level, msg |-> "msg", method |-> "", path |-> "", status |-> 0,
   duration |-> 0, args |-> <<>>]
LogCall(who, level) ==
  /\ who \in 0..Len(derived)
  /\ Len(logs) < MaxRecords
  /\ logs' = Append(logs, LogRecord(level))
  /\ sinks' = Handle(Receiver(who), sinks, LogRecord(level))
  /\ out' = [Out(IF who = 0 THEN "Log" ELSE "derived.Log", "", 0, NoClient, 0, FALSE)
               EXCEPT !.logger = <<Receiver(who)>>]
  /\ UNCHANGED <<chainVars, handler, req, g, w, wrapped, tw, tctx, span, callLog, nops,
                 cfg, providers, globals, lg, steps, derived, lockVars, wt>>

\* derived[k].SetLevel(level)
DerivedSetLevelCall(k, level) ==
  /\ k \in 1..Len(derived)
  /\ derived' = [derived EXCEPT ![k] = SetLevel(@, level)]
  /\ UNCHANGED <<chainVars, serveVars, cfg, out, providers, globals, lg, sinks, steps,
                 lockVars, wt>>

\* the environment closes os.Stdout: the console handler's writes fail from now on
CloseStdout ==
  /\ ~sinks.closed
  /\ sinks' = [sinks EXCEPT !.closed = TRUE]
  /\ UNCHANGED <<chainVars, serveVars, cfg, out, providers, globals, lg, steps, derived,
                 lockVars, wt>>

\* the original Logger is created before anything is derived from it or
\* logged through it
OriginalLogger(config) ==
  /\ derived = <<>> /\ logs = <<>>
  /\ NewLoggerCall(config)

NextSinks ==
  \/ \E console \in BOOLEAN, gcp \in BOOLEAN :
       OriginalLogger(LoggerConfig("proj", console, gcp, LevelInfo))
  \/ \E level \in SinkLevels : SetLevelCall(level)
  \/ \E who \in 0..MaxDerived, args \in FieldLists : WithCall(who, args)
  \/ \E who \in 0..MaxDerived, logName \in LogNames : WithLogNameCall(who, logName)
  \/ \E who \in 0..MaxDerived, level \in SinkLevels : LogCall(who, level)
  \/ \E k \in 1..MaxDerived, level \in SinkLevels : DerivedSetLevelCall(k, level)
  \/ CloseStdout

SpecSinks == Init /\ [][NextSinks]_vars

\* --------------------------------------- SetLevel against its readers
\* Three goroutines use the Logger lg: one calls SetLevel, one calls a log
\* method with context (InfoContext, LogHTTPRequest, ...), one calls With.
\* Each access to a field of the Logger is a step.

\* l.mu.Lock() of SetLevel
SetLevelLock ==
  /\ pc.setLevel = "idle"
  /\ ~mu.writer /\ mu.readers = 0
  /\ mu' = [mu EXCEPT !.writer = TRUE]
  /\ pc' = [pc EXCEPT !.setLevel = "locked"]
  /\ UNCHANGED <<lg, seen, sinks, derived>>

\* l.config.Level = level
SetLevelWriteLevel(level) ==
  /\ pc.setLevel = "locked"
  /\ lg' = [lg EXCEPT !.Level = level]
  /\ pc' = [pc EXCEPT !.setLevel = "wroteLevel"]
  /\ UNCHANGED <<mu, seen, sinks, derived>>

\* l.logger = slog.New(createHandler(l.config))
SetLevelWriteLogger ==
  /\ pc.setLevel = "wroteLevel"
  /\ lg' = SetLevel(lg, lg.Level)
  /\ pc' = [pc EXCEPT !.setLevel = "wroteLogger"]
  /\ UNCHANGED <<mu, seen, sinks, derived>>

\* the deferred l.mu.Unlock()
SetLevelUnlock ==
  /\ pc.setLevel = "wroteLogger"
  /\ mu' = [mu EXCEPT !.writer = FALSE]
  /\ pc' = [pc EXCEPT !.setLevel = "done"]
  /\ UNCHANGED <<lg, seen, sinks, derived>>

\* one read of a field of the Logger: what was read and whether SetLevel
\* held the write lock at that moment
Read(field, value) == [field |-> field, value |-> value, locked |-> mu.writer]

\* the log method reads l.config.ProjectID (addTraceContext), taking no lock
LogReadConfig ==
  /\ pc.log = "idle"
  /\ seen' = [seen EXCEPT !.log = Append(@, Read("config.ProjectID", lg.ProjectID))]
  /\ pc' = [pc EXCEPT !.log = "readConfig"]
  /\ UNCHANGED <<lg, mu, sinks, derived>>

\* the handler levels a read of l.logger can return: the one stored, and
\* while SetLevel is between Lock and Unlock also the one it installs (the
\* read races with the write)
LoggerReads ==
  {lg.hlevel} \cup (IF pc.setLevel \in {"locked", "wroteLevel"} THEN {lg.Level} ELSE {})

\* the log method reads l.logger, taking no lock, and logs through it
LogReadLogger(hlevel) ==
  /\ pc.log = "readConfig"
  /\ hlevel \in LoggerReads
  /\ seen' = [seen EXCEPT !.log = Append(@, Read("logger", hlevel))]
  /\ sinks' = Handle([lg EXCEPT !.hlevel = hlevel], sinks, LogRecord(LevelInfo))
  /\ pc' = [pc EXCEPT !.log = "done"]
  /\ UNCHANGED <<lg, mu, derived>>

\* l.mu.RLock() of With
WithRLock ==
  /\ pc.with = "idle"
  /\ ~mu.writer
  /\ mu' = [mu EXCEPT !.readers = @ + 1]
  /\ pc' = [pc EXCEPT !.with = "rlocked"]
  /\ UNCHANGED <<lg, seen, sinks, derived>>

\* With reads l.logger and l.config and builds the new Logger
WithRead(args) ==
  /\ pc.with = "rlocked"
  /\ seen' = [seen EXCEPT !.with = <<Read("config.Level", lg.Level), Read("logger", lg.hlevel)>>]
  /\ derived' = Append(derived, With(lg, args).logger)
  /\ pc' = [pc EXCEPT !.with = "read"]
  /\ UNCHANGED <<lg, mu, sinks>>

\* the deferred l.mu.RUnlock()
WithRUnlock ==
  /\ pc.with = "read"
  /\ mu' = [mu EXCEPT !.readers = @ - 1]
  /\ pc' = [pc EXCEPT !.with = "done"]
  /\ UNCHANGED <<lg, seen, sinks, derived>>

\* the Logger the goroutines share is created before they start
SharedLogger(config) ==
  /\ pc = IdlePC
  /\ NewLoggerCall(config)

NextRace ==
  \/ \E console \in BOOLEAN, gcp \in BOOLEAN, level \in LoggerLevels :
       SharedLogger(LoggerConfig("proj", console, gcp, level))
  \/ /\ \/ SetLevelLock
        \/ \E level \in LoggerLevels : SetLevelWriteLevel(level)
        \/ SetLevelWriteLogger
        \/ SetLevelUnlock
        \/ LogReadConfig
        \/ \E hlevel \in LoggerLevels : LogReadLogger(hlevel)
        \/ WithRLock
        \/ \E args \in FieldLists : WithRead(args)
        \/ WithRUnlock
     /\ UNCHANGED <<chainVars, serveVars, cfg, out, providers, globals, steps, wt>>

SpecRace == Init /\ [][NextRace]_vars

\* ------------------------------------------- log calls with a context
\* a field of a record: key and value
Field(key, value) == <<key, value>>
SpanID == "00f067aa0ba902b7"
\* fmt.Sprintf("projects/%s/traces/%s", projectID, traceID), as its parts
TraceResource(projectID, traceID) == <<"projects/", projectID, "/traces/", traceID>>

\* the span context found in ctx
SpanContext(valid, sampled) ==
  [valid |-> valid, traceID |-> IF valid THEN TraceID ELSE "", spanID |-> IF valid THEN SpanID ELSE "",
   sampled |-> sampled]

\* addTraceContext(ctx, projectID, attrs)
AddTraceContextAlways(sc, projectID, attrs) ==
  attrs \o <<Field("trace_id", sc.traceID), Field("span_id", sc.spanID),
             Field("trace_sampled", sc.sampled)>>
        \o <<Field("logging.googleapis.com/trace", TraceResource(projectID, sc.traceID)),
             Field("logging.googleapis.com/spanId", sc.spanID),
             Field("logging.googleapis.com/trace_sampled", sc.sampled)>>
AddTraceContext(sc, projectID, attrs) ==
  IF ~sc.valid THEN attrs
  ELSE LET traced == attrs \o <<Field("trace_id", sc.traceID), Field("span_id", sc.spanID),
                                Field("trace_sampled", sc.sampled)>>
       IN IF projectID # ""
          THEN traced \o <<Field("logging.googleapis.com/trace",
                                 TraceResource(projectID, sc.traceID)),
                           Field("logging.googleapis.com/spanId", sc.spanID),
                           Field("logging.googleapis.com/trace_sampled", sc.sampled)>>
          ELSE traced

ContextMethods == {"DebugContext", "InfoContext", "WarnContext", "ErrorContext",
                   "CriticalContext", "LogHTTPRequest", "LogError"}
CallerFields == {<<>>, <<Field("user_id", "u1")>>,
                 <<Field("user_id", "u1"), Field("action", "read")>>}

\* the fields a method puts before the caller's: LogHTTPRequest is called
\* with GET /test 200 0, LogError with an error
MethodFields(method) ==
  CASE method = "LogHTTPRequest" ->
         <<Field("http.method", "GET"), Field("http.path", "/test"),
           Field("http.status_code", StatusOK), Field("duration_ms", 0),
           Field("httpRequest", <<"GET", "/test", StatusOK, 0>>)>>
    [] method = "LogError" -> <<Field("error", "boom"), Field("error.type", "*errors.errorString")>>
    [] OTHER -> <<>>

\* the record a context-aware method of Logger l hands to l.logger
ContextRecord(l, method, sc, args) ==
  LET base == IF method = "LogHTTPRequest" THEN LogHTTPRequest("GET", "/test", StatusOK, 0, <<>>)
              ELSE [LogRecord(CASE method = "DebugContext" -> LevelDebug
                                [] method = "InfoContext" -> LevelInfo
                                [] method = "WarnContext" -> LevelWarn
                                [] method = "CriticalContext" -> LevelCritical
                                [] OTHER -> LevelError)
                      EXCEPT !.msg = "msg"]
  IN [base EXCEPT !.args = AddTraceContext(sc, l.ProjectID, MethodFields(method) \o args)]

\* l.<method>(ctx, ..., args...) on the Logger under use; LogError also
\* marks the span in ctx as failed
ContextLogCall(method, sc, args) ==
  /\ Len(logs) < MaxLogs
  /\ span' = [NoSpan EXCEPT !.valid = sc.valid,
                            !.status = IF method = "LogError" THEN "Error" ELSE @]
  /\ logs' = Append(logs, ContextRecord(lg, method, sc, args))
  /\ sinks' = Handle(lg, sinks, ContextRecord(lg, method, sc, args))
  /\ out' = Out(method, "", 0, NoClient, sc.traceID, sc.sampled)
  /\ UNCHANGED <<chainVars, handler, req, g, w, wrapped, tw, tctx, callLog, nops,
                 cfg, providers, globals, lg, steps, derived, lockVars, wt>>

NextTrace ==
  \/ \E pid \in ProjectIDs : OriginalLogger(LoggerConfig(pid, TRUE, FALSE, LevelDebug))
  \/ \E method \in ContextMethods, valid \in BOOLEAN, sampled \in BOOLEAN,
        args \in CallerFields : ContextLogCall(method, SpanContext(valid, sampled), args)

SpecTrace == Init /\ [][NextTrace]_vars

\* ------------------------------------------------ telemetry.WithTimeout
\* done := make(chan error, 1)
DoneCap == 1
\* what fn can return: nil, an error of its own, or the error of the
\* context it was given once that context is done
FnErrors == {"", "operation failed", "not found"}

\* WithTimeout up to its select: the span is started (sampled or not), the
\* timeout context and the channel are created, the task is started
WithTimeoutCall(valid) ==
  /\ wt.caller = "idle"
  /\ wt' = [NoWithTimeout EXCEPT !.caller = "select", !.task = "run", !.valid = valid]

\* the deadline of timeoutCtx passes, or the parent context is cancelled
ContextDone(err) ==
  /\ wt.caller = "select"
  /\ wt.ctxErr = ""
  /\ wt' = [wt EXCEPT !.ctxErr = err]

\* fn(timeoutCtx) returns in the task
FnReturn(err) ==
  /\ wt.task = "run"
  /\ err \in FnErrors \cup {wt.ctxErr}
  /\ wt' = [wt EXCEPT !.task = "send", !.fnErr = err]

\* a send on the done channel can proceed
CanSendUnbuffered(done, caller) == caller = "select" /\ done = <<>>
CanSend(done, caller) == Len(done) < DoneCap

\* done <- fn(timeoutCtx): the task delivers and ends
TaskSend ==
  /\ wt.task = "send"
  /\ CanSend(wt.done, wt.caller)
  /\ wt' = [wt EXCEPT !.done = Append(@, wt.fnErr), !.task = "exit"]

\* what the deferred cancel() and span.End() do on return
WithTimeoutReturn(s, err) ==
  [s EXCEPT !.result = <<err>>,
            !.status = IF err # "" THEN "Error" ELSE @,
            !.ctxErr = IF @ = "" THEN "Canceled" ELSE @,
            !.ended = @ + 1,
            !.caller = "returned"]

\* select, case err := <-done
SelectDone ==
  /\ wt.caller = "select"
  /\ wt.done # <<>>
  /\ wt' = WithTimeoutReturn([wt EXCEPT !.done = Tail(@)], Head(wt.done))

\* select, case <-timeoutCtx.Done()
SelectTimeout ==
  /\ wt.caller = "select"
  /\ wt.ctxErr # ""
  /\ wt' = WithTimeoutReturn(wt, wt.ctxErr)

NextWithTimeout ==
  /\ \/ \E valid \in BOOLEAN : WithTimeoutCall(valid)
     \/ \E err \in {"DeadlineExceeded", "Canceled"} : ContextDone(err)
     \/ \E err \in FnErrors \cup {"DeadlineExceeded", "Canceled"} : FnReturn(err)
     \/ TaskSend
     \/ SelectDone
     \/ SelectTimeout
  /\ UNCHANGED <<chainVars, serveVars, cfg, out, providers, globals, lg, sinks, steps,
                 derived, lockVars>>

\* the scheduler runs a goroutine that can take a step: the task's send
\* happens when it is possible
SpecWithTimeout == Init /\ [][NextWithTimeout]_vars /\ WF_wt(TaskSend)

\* ------------------------------- serving through instrumented decorators
\* a request served by NewChain(first...).Append(more...).Then(h)
ServeInstrumented(first, more, h) ==
  /\ Len(first) + Len(more) <= MaxChainLen
  /\ chains' = <<ChainAppend(NewChain(first), more)>>
  /\ composed' = <<[chain |-> 1, hd |-> Then(chains'[1], HandlerFunc(h))]>>
  /\ call' = Call("Then", 1, <<>>, "", 0, 0, composed'[1].hd)
  /\ Serve(composed'[1].hd, "GET", "", FALSE, 1)

NextOrder ==
  \/ /\ \E first \in InstrumentedLists(MaxChainLen), more \in InstrumentedLists(MaxChainLen),
          h \in HandlerNames : ServeInstrumented(first, more, h)
     /\ UNCHANGED cfgVars
  \/ /\ \/ EnterInstrumented(1) \/ ReturnInstrumented(1)
        \/ HandlerCall(1) \/ HandlerReturn(1) \/ HandlerPanic(1) \/ Unwind(1)
        \/ Finish
     /\ UNCHANGED <<chainVars, cfgVars>>

SpecOrder == Init /\ [][NextOrder]_vars

\* ================================================================ claims
IsPrefix(a, b) == Len(a) <= Len(b) /\ SubSeq(b, 1, Len(a)) = a

\* the call order a chain with decorators ms around h is to produce
ExpectedCalls(ms, h) ==
  [k \in 1..Len(ms) |-> <<"pre", ms[k].op>>]
  \o <<<<"handler", h>>>>
  \o [k \in 1..Len(ms) |-> <<"post", ms[Len(ms) + 1 - k].op>>]

Served == g[1].mode # "idle"

\* C1: a request served by chain.Then(h), the chain holding m1..mn, runs the
\* pre-hooks m1..mn in that order, then h once, then the post-hooks mn..m1:
\* the recorded calls are at every moment a prefix of that sequence and the
\* whole sequence once the request is finished; with n = 0 only h runs.
C1_ChainOrder ==
  Served =>
    /\ IsPrefix(callLog, ExpectedCalls(chains[1].middlewares, handler.h))
    /\ g[1].mode = "finished" =>
         callLog = ExpectedCalls(chains[1].middlewares, handler.h)

C1_Witness ==
  /\ g[1].mode = "finished"
  /\ chains[1].middlewares = <<Instrumented("A"), Instrumented("B")>>
  /\ callLog = <<<<"pre", "A">>, <<"pre", "B">>, <<"handler", handler.h>>,
                 <<"post", "B">>, <<"post", "A">>>>

\* C6: StandardChain(op) holds OTelHTTP(op), RequestID, Logging, Recovery,
\* CORS in that order; APIChain(op, t) holds the same with Timeout(t) before
\* CORS when t > 0 and exactly the Standard sequence when t <= 0.
C6_PrebuiltChains ==
  /\ call.op = "StandardChain" =>
       chains[call.chain].middlewares =
         <<Mw("OTelHTTP", call.operationName, 0), Mw("RequestID", "", 0),
           Mw("Logging", "", 0), Mw("Recovery", "", 0), Mw("CORS", "", 0)>>
  /\ call.op = "APIChain" /\ call.timeout > 0 =>
       chains[call.chain].middlewares =
         <<Mw("OTelHTTP", call.operationName, 0), Mw("RequestID", "", 0),
           Mw("Logging", "", 0), Mw("Recovery", "", 0),
           Mw("Timeout", "", call.timeout), Mw("CORS", "", 0)>>
  /\ call.op = "APIChain" /\ call.timeout <= 0 =>
       chains[call.chain].middlewares =
         <<Mw("OTelHTTP", call.operationName, 0), Mw("RequestID", "", 0),
           Mw("Logging", "", 0), Mw("Recovery", "", 0), Mw("CORS", "", 0)>>

C6_Witness ==
  /\ call.op = "APIChain"
  /\ call.timeout > 0
  /\ Len(chains[call.chain].middlewares) = 6

\* C7: Then and ThenFunc leave the chain's list unchanged and wrap the
\* terminal handler they are given with the chain's current list; the only
\* operation that changes an existing chain's list is Append, which adds its
\* arguments at the end of the receiver's list and returns the receiver; a
\* handler composed earlier is never changed by a later operation.
C7_Step ==
  /\ Len(composed') > Len(composed) =>
       /\ chains' = chains
       /\ call'.op \in {"Then", "ThenFunc"}
       /\ composed'[Len(composed')].hd.mws = chains[call'.recv].middlewares
       /\ composed'[Len(composed')].hd = call'.hd
  /\ \A k \in 1..Len(composed) : composed'[k] = composed[k]
  /\ \A c \in 1..Len(chains) :
       /\ c \in 1..Len(chains')
       /\ chains'[c] # chains[c] =>
            /\ call'.op = "Append"
            /\ call'.recv = c
            /\ call'.chain = c
            /\ chains'[c].middlewares = chains[c].middlewares \o call'.middlewares
            /\ \A d \in 1..Len(chains) : d # c => chains'[d] = chains[d]
  /\ call'.op = "Append" /\ call' # call => call'.chain = call'.recv

C7_ChainReuse == [][C7_Step]_vars

C7_Witness ==
  /\ Len(composed) = 2
  /\ composed[1].chain = composed[2].chain
  /\ composed[1].hd.h # composed[2].hd.h
  /\ composed[1].hd.mws # composed[2].hd.mws
  /\ composed[2].hd.mws = chains[composed[2].chain].middlewares
  /\ IsPrefix(composed[1].hd.mws, composed[2].hd.mws)

BodyIsErrorJSON(body) ==
  /\ Len(body) = 1
  /\ body[1].kind = "json"
  /\ body[1].code = 500

HasUnit(k) == \E d \in 1..Len(Layers) : Layers[d].k = k
UnitDepth(k) == CHOOSE d \in 1..Len(Layers) : Layers[d].k = k

\* goroutine i is in Recovery's deferred function with a panic to recover
\* and leaves it in this step
Recovers(i) ==
  /\ g[i].mode = "panic"
  /\ KindAt(g[i].depth) = "Recovery"
  /\ g'[i] # g[i]

\* the panic of goroutine i has passed a Recovery layer
Escaped(i) ==
  /\ g[i].mode = "panic"
  /\ \E d \in 1..Len(Layers) : Layers[d].k = "Recovery" /\ g[i].depth < d

C2_RecoveryStep ==
  /\ \A i \in {1, 2} : Recovers(i) =>
       /\ g'[i].mode = "ret"
       /\ ~w.wroteHeader /\ w.body = <<>> =>
            /\ w'.status = StatusInternalServerError
            /\ w'.sent["Content-Type"] = "application/json"
            /\ BodyIsErrorJSON(w'.body)
  /\ w.wroteHeader => w'.wroteHeader /\ w'.status = w.status

WaitEnds == g[1].mode = "select" /\ g'[1].mode # "select"

C3_TimeoutStep ==
  /\ WaitEnds /\ tctx.err # "" /\ ~tctx.done /\ tctx.panicChan = <<>> =>
       /\ w'.status = StatusServiceUnavailable
       /\ tw'.err # ""
       /\ g'[1].mode = "ret"
       /\ g'[2] = g[2]
       /\ g[2].mode # "exit"
  /\ WaitEnds /\ tctx.done /\ tctx.err = "" =>
       /\ w'.status = IF tw.wroteHeader THEN tw.code ELSE StatusOK
       /\ w'.body = tw.wbuf
       /\ g'[1].mode = "ret"

CORSHeadersIn(h) ==
  /\ h["Access-Control-Allow-Origin"] = "*"
  /\ h["Access-Control-Allow-Methods"] = "GET, POST, PUT, DELETE, OPTIONS"
  /\ h["Access-Control-Allow-Headers"] # ""
  /\ h["Access-Control-Allow-Credentials"] = "true"
  /\ h["Access-Control-Max-Age"] = "86400"

ViaTimeout(d) == \E j \in 1..(d - 1) : Layers[j].k = "Timeout"

CORSRuns(i) == g[i].mode = "call" /\ KindAt(g[i].depth) = "CORS" /\ g'[i] # g[i]

C4_CORSStep ==
  \A i \in {1, 2} : CORSRuns(i) =>
    /\ CORSHeadersIn(IF ViaTimeout(g[i].depth) THEN tw'.h ELSE w'.hdr)
    /\ req.method = "OPTIONS" =>
         /\ g'[i].depth = g[i].depth - 1
         /\ g'[i].mode \in {"ret", "exit"}
         /\ ~ViaTimeout(g[i].depth) => w'.status = StatusNoContent
         /\ ViaTimeout(g[i].depth) /\ tw.err = "" => tw'.code = StatusNoContent
    /\ req.method # "OPTIONS" =>
         /\ g'[i] = Goroutine(g[i].depth + 1, "call")
         /\ callLog' = <<>>

C4_State ==
  HasUnit("CORS") =>
    /\ req.method = "OPTIONS" =>
         /\ \A i \in {1, 2} : g[i].depth <= UnitDepth("CORS")
         /\ callLog = <<>>
         /\ g[1].mode = "finished" /\ tw.err = "" =>
              /\ w.status = StatusNoContent
              /\ CORSHeadersIn(w.sent)
    /\ Len(callLog) <= 1

IsStandardChain ==
  handler.mws = <<Mw("OTelHTTP", "op", 0), Mw("RequestID", "", 0), Mw("Logging", "", 0),
                  Mw("Recovery", "", 0), Mw("CORS", "", 0)>>

C5_RequestID ==
  IsStandardChain =>
    /\ \A i \in {1, 2} : ~(g[i].mode = "panic" /\ g[i].depth = 0)
    /\ w.wroteHeader =>
         /\ w.sent["X-Request-ID"] # ""
         /\ req.requestID # "" => w.sent["X-Request-ID"] = req.requestID
         /\ req.requestID = "" /\ req.tracing => w.sent["X-Request-ID"] = TraceID
         /\ req.requestID = "" /\ ~req.tracing => w.sent["X-Request-ID"] = ToString(req.now)
    /\ g[1].mode = "finished" => w.wroteHeader

C5_Witness ==
  /\ IsStandardChain
  /\ g[1].mode = "finished"
  /\ w.status = StatusInternalServerError
  /\ req.requestID = ""
  /\ ~req.tracing
  /\ w.sent["X-Request-ID"] = "1"

\* C8: every LogHTTPRequest call makes exactly one Log call, at level Error
\* for a status of 500 or more, Warn for a status from 400 to 499 and Info
\* for any other status, whatever the method, path, duration and extra
\* fields; each enabled sink whose configured level the record reaches
\* writes it once.
LevelOf(statusCode) ==
  IF statusCode >= 500 THEN LevelError
  ELSE IF statusCode >= 400 /\ statusCode <= 499 THEN LevelWarn
  ELSE LevelInfo

Written(before, after, rec, enabled) ==
  IF enabled /\ rec.level >= lg.hlevel THEN after = Append(before, rec) ELSE after = before

C8_Step ==
  logs' # logs =>
    /\ Len(logs') = Len(logs) + 1
    /\ SubSeq(logs', 1, Len(logs)) = logs
    /\ LET rec == logs'[Len(logs')]
       IN /\ rec.level = LevelOf(rec.status)
          /\ Written(sinks.stdout, sinks'.stdout, rec, lg.EnableConsole)
          /\ Written(sinks.stderr, sinks'.stderr, rec, lg.EnableGCP)

C8_State ==
  \A k \in 1..Len(logs) :
    /\ logs[k].status >= 500 => logs[k].level = LevelError
    /\ logs[k].status \in 400..499 => logs[k].level = LevelWarn
    /\ logs[k].status < 400 => logs[k].level = LevelInfo

C8_LogHTTPRequest == []C8_State /\ [][C8_Step]_vars

C8_Witness ==
  /\ Len(logs) = 1
  /\ logs[1].status = 499
  /\ logs[1].level = LevelWarn
  /\ sinks.stderr = <<logs[1]>>
  /\ sinks.stdout = <<>>

\* C9 as stated: a span started on the provider that NewProvider, or NewClient
\* with tracing enabled, has just returned for a configuration with
\* TraceRatio 0 is never sampled, and for TraceRatio 1 it is always sampled.
Constructed ==
  /\ out.op \in {"NewProvider", "NewClient"}
  /\ out.err = ""
  /\ out.provider # 0
  /\ cfg.EnableTracing

StartsOnConstructed ==
  /\ Constructed
  /\ out'.op = "Start"
  /\ out'.provider = out.provider

C9_Original ==
  [][/\ StartsOnConstructed /\ cfg.TraceRatio = 0 => ~out'.sampled
     /\ StartsOnConstructed /\ cfg.TraceRatio = RatioOne => out'.sampled]_vars

\* C10: with a ratio below 0 or above 1 both Validate methods return an
\* error, NewProvider and NewClient return an error, no provider and no
\* client, and construct nothing; with ratio 0 or 1 and an otherwise valid
\* configuration both Validate methods return no error.
RatioOutOfRange == cfg.TraceRatio < 0 \/ cfg.TraceRatio > RatioOne

C10_State ==
  /\ out.op \in {"Config.Validate", "telemetry.Config.Validate", "NewProvider", "NewClient"}
       /\ RatioOutOfRange =>
       /\ out.err # ""
       /\ out.provider = 0
       /\ out.client = NoClient
  /\ out.op = "Config.Validate" /\ cfg.TraceRatio \in {0, RatioOne}
       /\ cfg.ServiceName # "" /\ cfg.ProjectID # "" => out.err = ""
  /\ out.op = "telemetry.Config.Validate" /\ cfg.TraceRatio \in {0, RatioOne}
       /\ cfg.ServiceName # "" /\ (cfg.EnableTracing => cfg.ProjectID # "")
       /\ cfg.MaxBatchSize > 0 /\ cfg.MaxQueueSize > 0 => out.err = ""

C10_Step ==
  out'.op \in {"NewProvider", "NewClient"}
    /\ (cfg'.TraceRatio < 0 \/ cfg'.TraceRatio > RatioOne) =>
    /\ providers' = providers
    /\ globals' = globals

C10_RatioValidation == []C10_State /\ [][C10_Step]_vars

C10_Witness ==
  /\ out.op = "NewClient"
  /\ cfg.TraceRatio > RatioOne
  /\ cfg.ProjectID # ""
  /\ cfg.EnableTracing
  /\ out.err = "invalid config"
  /\ out.client = NoClient

\* C11 as stated: every panic Recovery recovers adds exactly one record at
\* Critical level, made by LogPanic, that carries the panic value and a stack
\* trace, before the 500 response is written.
IsPanicRecord(rec) ==
  /\ rec.level = LevelCritical
  /\ rec.msg = "Panic recovered"
  /\ rec.args = <<"panic.value", "panic.stack_trace">>

C11_Original ==
  [][\A i \in {1, 2} : Recovers(i) =>
       /\ Len(logs') = Len(logs) + 1
       /\ IsPanicRecord(logs'[Len(logs')])]_vars

\* C12 as stated: when Recovery recovers a panic it writes status 500 and the
\* JSON error body only if nothing has been written to the response yet;
\* after a status or body bytes written by the handler, Recovery writes no
\* further status and no further body bytes.
C12_Original ==
  [][\A i \in {1, 2} : Recovers(i) =>
       IF ~w.wroteHeader /\ w.body = <<>>
       THEN /\ w'.status = StatusInternalServerError
            /\ BodyIsErrorJSON(w'.body)
       ELSE /\ w'.status = w.status
            /\ w'.body = w.body]_vars

\* C13: in the Standard and API chains, when Recovery has recovered the
\* handler's panic, Logging's post-hook has not run before Recovery wrote its
\* response, it runs exactly once afterwards, and the one HTTP record it
\* makes has status 500 and level Error.
IsHTTPRecord(rec) ==
  rec.msg \in {"HTTP request completed", "HTTP request client error", "HTTP request failed"}

HTTPRecords(records) == SelectSeq(records, IsHTTPRecord)

InPrebuiltChain ==
  \E op \in Operations :
    \/ handler.mws = StandardChain(op).middlewares
    \/ \E t \in Timeouts : handler.mws = APIChain(op, t).middlewares

\* Recovery's JSON error object is in the response
PanicRecovered == \E k \in 1..Len(w.body) : w.body[k].kind = "json"

C13_State ==
  InPrebuiltChain /\ PanicRecovered =>
    /\ wrapped.statusCode = StatusInternalServerError
    /\ Len(HTTPRecords(logs)) <= 1
    /\ \A k \in 1..Len(HTTPRecords(logs)) :
         /\ HTTPRecords(logs)[k].status = StatusInternalServerError
         /\ HTTPRecords(logs)[k].level = LevelError
    /\ g[1].mode = "finished" => Len(HTTPRecords(logs)) = 1

C13_Step ==
  \A i \in {1, 2} : Recovers(i) /\ InPrebuiltChain =>
    /\ HTTPRecords(logs) = <<>>
    /\ HTTPRecords(logs') = <<>>
    /\ PanicRecovered'

C14_Original ==
  \A k \in 1..Len(steps) :
    (steps[k].op = "Client.Shutdown" /\ steps[k].failed) =>
      /\ \E j \in 1..Len(steps[k].steps) : steps[k].steps[j] = "logger.Close"
      /\ steps[k].err = "failed to shutdown telemetry"

\* call k of steps repeats an earlier call on the same client, provider or logger
Repeated(calls, k) ==
  \E j \in 1..(k - 1) : calls[j].op = calls[k].op /\ calls[j].target = calls[k].target

\* C15: Client.Shutdown called twice on the same client never panics and the
\* second call is a no-op returning nil or returns a benign error; the same
\* for Logger.Close and Provider.Shutdown called repeatedly.
C15_State ==
  \A k \in 1..Len(steps) :
    /\ steps[k].err # "panic"
    /\ Repeated(steps, k) => steps[k].err \in {"", "already shut down"}
C15_Step ==
  (/\ Len(steps') = Len(steps) + 1
   /\ Repeated(steps', Len(steps'))
   /\ steps'[Len(steps')].err = "") => providers' = providers
C15_RepeatedShutdown == []C15_State /\ [][C15_Step]_vars
C15_Witness ==
  /\ Len(steps) = 2
  /\ steps[1].op = "Client.Shutdown" /\ steps[1].failed
  /\ steps[2].op = "Client.Shutdown" /\ steps[2].target = steps[1].target
  /\ steps[2].err = ""

\* C16: the process-wide telemetry provider is initialized at most once:
\* after the first successful telemetry.InitGlobal every later InitGlobal
\* leaves the provider telemetry.Global() returns unchanged.
C16_Original ==
  [][(globals.globalProvider # 0 /\ out'.op = "telemetry.InitGlobal") =>
       TelemetryGlobal(globals') = TelemetryGlobal(globals)]_vars

\* C17: before any InitGlobal call has succeeded, logger.Global() and
\* telemetry.Global() each return a usable non-nil default object, never nil.
C17_Original ==
  /\ (out.op = "logger.Global" /\ globals.globalLogger = NoLogger) => out.logger # NoLogger
  /\ (out.op = "telemetry.Global" /\ globals.globalProvider = 0) => out.provider # 0

\* a log call was made on the original logger in this step
LogStep == out'.op = "Log" /\ Len(logs') = Len(logs) + 1

\* C19: with the console and the GCP sink enabled, every record is dispatched
\* to every enabled sink that accepts its level: a write failure in the first
\* sink does not prevent the dispatch to the second, and no error is raised
\* to the caller of the log method.
C19_Original ==
  [][(/\ LogStep
      /\ lg.EnableConsole /\ lg.EnableGCP
      /\ logs'[Len(logs')].level >= lg.hlevel) =>
        /\ sinks'.stderr = Append(sinks.stderr, logs'[Len(logs')])
        /\ out'.err = ""]_vars

\* C20: With(fields...) and WithLogName(name) never mutate the receiver:
\* after any With / WithLogName calls, a record emitted through the original
\* logger has none of the fields bound on a derived logger, and the original
\* logger's config (LogName included) is unchanged.
C20_Step ==
  /\ Len(derived') = Len(derived) + 1 =>
       /\ lg' = lg
       /\ \A k \in 1..Len(derived) : derived'[k] = derived[k]
  /\ LogStep =>
       /\ sinks'.stdout \in {sinks.stdout, Append(sinks.stdout, logs'[Len(logs')])}
       /\ sinks'.stderr \in {sinks.stderr, Append(sinks.stderr, logs'[Len(logs')])}
C20_State == lg.attrs = <<>> /\ lg.LogName \notin LogNames
C20_WithKeepsReceiver == []C20_State /\ [][C20_Step]_vars
C20_Witness ==
  /\ Len(derived) = 1
  /\ derived[1].attrs = <<"component">>
  /\ out.op = "Log"
  /\ sinks.stderr = <<LogRecord(LevelInfo)>>
  /\ lg.LogName = "default-service"

\* C18: SetLevel is mutually exclusive with every concurrent read of the
\* logger's sink wiring: no log call and no With / WithLogName call reads the
\* logger's handler or config while SetLevel is replacing them, and each
\* reader sees the complete old (level, handler) pair or the complete new one.
C18_Original ==
  /\ \A k \in 1..Len(seen.log) : seen.log[k].field = "logger" => ~seen.log[k].locked
  /\ \A k \in 1..Len(seen.with) : ~seen.with[k].locked
  /\ seen.with # <<>> => seen.with[1].value = seen.with[2].value

\* the last record of a sink names the field
LastHas(sink, field) ==
  \E j \in 1..Len(sink[Len(sink)].args) : sink[Len(sink)].args[j] = field

\* C21: every record emitted through a logger derived by With or WithLogName
\* carries the bound fields, for every later log call on the derived logger
\* and any interleaving of those calls with SetLevel on the derived logger.
C21_Original ==
  [][(/\ out'.op = "derived.Log"
      /\ Len(logs') = Len(logs) + 1
      /\ out'.logger[1].LogName \in LogNames) =>
        /\ sinks'.stdout # sinks.stdout => LastHas(sinks'.stdout, "log_name")
        /\ sinks'.stderr # sinks.stderr => LastHas(sinks'.stderr, "log_name")]_vars

\* the request is over and a response went to the client
Responded == g[1].mode = "finished" /\ w.wroteHeader

\* C22: every response produced by a chain that contains CORS carries the
\* permissive CORS headers, including Recovery's 500 after a handler panic
\* and Timeout's 503 in the API chain when the deadline fires.
C22_Original == (HasUnit("CORS") /\ Responded) => CORSHeadersIn(w.sent)

\* the response body holds the text
InBody(text) == \E k \in 1..Len(w.body) : w.body[k].kind = "text" /\ w.body[k].text = text

\* C23: once Timeout has answered 503 for the deadline, a later WriteHeader
\* or Write of the still-running handler task has no effect on the response:
\* the status stays 503 and no handler bytes or headers are added; exactly
\* one of the two outcomes (handler response, timeout response) is delivered.
C23_State ==
  /\ tw.err # "" =>
       /\ w.status = StatusServiceUnavailable
       /\ w.body = <<Text(TimeoutMessage)>>
  /\ (HasUnit("Timeout") /\ g[1].mode = "finished") =>
       /\ tw.err # "" <=> InBody(TimeoutMessage)
       /\ tw.err = "" => w.status # StatusServiceUnavailable
C23_Step ==
  tw.err # "" =>
    /\ w'.status = w.status /\ w'.body = w.body /\ w'.sent = w.sent
    /\ tw'.wbuf = tw.wbuf /\ tw'.code = tw.code /\ tw'.wroteHeader = tw.wroteHeader
C23_LateWrites == []C23_State /\ [][C23_Step]_vars
C23_Witness ==
  /\ g[1].mode = "finished"
  /\ tw.err # ""
  /\ g[2].mode = "exit"
  /\ nops = MaxHandlerOps
  /\ tw.wbuf = <<>> /\ ~tw.wroteHeader
  /\ w.status = StatusServiceUnavailable

\* the deferred function of RecoverMiddleware runs for a panic of goroutine i
MiddlewareRecovers(i) ==
  /\ g[i].mode = "panic"
  /\ KindAt(g[i].depth) = "RecoverMiddleware"
  /\ g'[i] # g[i]

\* C24: helpers.RecoverMiddleware recovers from panics: whatever value the
\* wrapped handler panics with, its ServeHTTP returns normally, the panic is
\* logged and the response is 500 "Internal Server Error".
C24_Original ==
  [][\A i \in {1, 2} : MiddlewareRecovers(i) =>
       /\ g'[i].mode = "ret"
       /\ Len(logs') = Len(logs) + 1
       /\ IsPanicRecord(logs'[Len(logs')])
       /\ ~w.wroteHeader =>
            /\ w'.status = StatusInternalServerError
            /\ w'.body = Append(w.body, Text("Internal Server Error"))]_vars

\* the record has a field with the key
HasField(rec, key) == \E j \in 1..Len(rec.args) : rec.args[j][1] = key
\* field j of the record has the key and the value
FieldIs(rec, j, key, value) ==
  /\ j <= Len(rec.args)
  /\ rec.args[j][1] = key
  /\ rec.args[j][2] = value
\* the record's fields start with the fields given
StartsWith(rec, fields) ==
  \A j \in 1..Len(fields) : FieldIs(rec, j, fields[j][1], fields[j][2])

\* C25: for every context-aware log call the emitted fields are the caller's
\* fields followed by trace_id, span_id and trace_sampled if and only if the
\* context holds a valid span; the trace resource field with value
\* projects/<ProjectID>/traces/<traceID> is appended if and only if the span
\* is valid and the logger's ProjectID is not empty; without a valid span
\* the caller's fields are emitted unchanged and nothing fails.
C25_Step ==
  (Len(logs') = Len(logs) + 1 /\ out'.op \in ContextMethods) =>
    LET rec == logs'[Len(logs')]
        valid == span'.valid
        n == Len(rec.args)
    IN \E args \in CallerFields :
         LET own == MethodFields(out'.op) \o args
             m == Len(own)
         IN /\ StartsWith(rec, own)
            /\ out'.err = ""
            /\ lg.EnableConsole => sinks'.stdout = Append(sinks.stdout, rec)
            /\ ~valid => n = m
            /\ valid =>
                 /\ n >= m + 3
                 /\ FieldIs(rec, m + 1, "trace_id", TraceID)
                 /\ FieldIs(rec, m + 2, "span_id", SpanID)
                 /\ FieldIs(rec, m + 3, "trace_sampled", out'.sampled)
            /\ (valid /\ lg.ProjectID # "") =>
                 /\ n = m + 6
                 /\ FieldIs(rec, m + 4, "logging.googleapis.com/trace",
                            <<"projects/", lg.ProjectID, "/traces/", TraceID>>)
            /\ (valid /\ lg.ProjectID = "") => n = m + 3
C25_TraceFields == [][C25_Step]_vars
C25_Witness ==
  /\ Len(logs) = 1
  /\ out.op = "LogError"
  /\ span.valid /\ lg.ProjectID = "proj"
  /\ Len(logs[1].args) = 9
  /\ HasField(logs[1], "logging.googleapis.com/trace")
  /\ sinks.stdout = logs

\* C26: construction never proceeds with a silently defaulted required
\* identifier: for every configuration whose ServiceName is empty,
\* Config.Validate returns an error and NewProvider and NewClient return an
\* error instead of a provider or client.
C26_Original ==
  (/\ out.op \in {"Config.Validate", "telemetry.Config.Validate", "NewProvider", "NewClient"}
   /\ cfg.ServiceName = "") =>
     /\ out.err # ""
     /\ out.provider = 0
     /\ out.client = NoClient

\* C27: after NewClient with tracing enabled succeeded and Client.Shutdown
\* returned nil, every tracer provider NewClient created has been shut down;
\* the provider installed process-wide is the one Client.Telemetry() returns
\* and the one Shutdown flushed.
C27_Original ==
  (out.op = "Shutdown" /\ out.err = "" /\ out.client.telemetry # 0) =>
    LET t == out.client.telemetry
    IN /\ providers[t].shutdown
       /\ providers[t + 1].shutdown
       /\ globals.otel = t

\* C28: for every request passing through Logging, the status code recorded
\* in the log record equals the status code sent to the client, for any
\* sequence of WriteHeader and Write calls of the inner layers (a second
\* WriteHeader after the response started included); Logging never alters
\* the response.
C28_Original ==
  (HasUnit("Logging") /\ g[1].mode = "finished" /\ HTTPRecords(logs) # <<>>) =>
    HTTPRecords(logs)[1].status = w.status

\* C29: for any sequence of logger.InitGlobal calls, whenever a call returns
\* a nil error the process-wide logger is initialized afterwards; a failed
\* first InitGlobal does not keep a later InitGlobal with a valid
\* configuration from initializing it.
C29_Original ==
  (out.op = "logger.InitGlobal" /\ out.err = "") =>
    /\ globals.globalLogger # NoLogger
    /\ LoggerGlobal(globals) # <<DefaultLogger>>

\* C30: telemetry.WithTimeout always returns exactly one outcome, the error
\* fn returned or the context's deadline / cancellation error, and ends its
\* span exactly once; under every interleaving of fn's completion and the
\* deadline the task running fn is never blocked forever delivering its
\* result: it ends once fn returned, also when the caller already returned.
C30_State ==
  /\ Len(wt.done) <= DoneCap
  /\ wt.caller # "returned" => wt.result = <<>> /\ wt.ended = 0
  /\ wt.caller = "returned" =>
       /\ Len(wt.result) = 1
       /\ wt.ended = 1
       /\ \/ wt.task = "exit" /\ wt.done = <<>> /\ wt.result[1] = wt.fnErr
          \/ wt.ctxErr \in {"DeadlineExceeded", "Canceled"} /\ wt.result[1] = wt.ctxErr
C30_Step ==
  wt.caller = "returned" =>
    /\ wt'.result = wt.result /\ wt'.ended = wt.ended /\ wt'.caller = "returned"
C30_WithTimeout ==
  /\ []C30_State
  /\ [][C30_Step]_vars
  /\ (wt.task = "send") ~> (wt.task = "exit")
C30_Witness ==
  /\ wt.caller = "returned"
  /\ wt.result = <<"DeadlineExceeded">>
  /\ wt.task = "exit"
  /\ wt.done = <<"operation failed">>
  /\ wt.ended = 1

====
